---- MODULE Spec2Model ----
(***************************************************************************)
(* Document store, keyword search, cross-reference and URL lookup of the   *)
(* UKGC regulatory navigator: the Streamlit application                    *)
(* (src/streamlit_app.py) and the MCP server                               *)
(* (src/Server/ukgc_regulatory_mcp_server.py).                             *)
(*                                                                         *)
(* Text is a sequence of one-character strings, so that substring search,  *)
(* lower-casing, digit extraction and JSON serialisation are computed as   *)
(* the Python code computes them.  A JSON value is a record                *)
(*   [t, s, n, kv] with t the type tag, s the text of a string, n the      *)
(* value of a number (or 0/1 of a boolean) and kv the members of an        *)
(* object ([k, v] pairs in file order) or the items of an array ([k, v]    *)
(* pairs with k empty).                                                    *)
(***************************************************************************)
EXTENDS Integers, Sequences, FiniteSets, TLC

\* ------------------------------------------------------------------ bounds

\* Files on disk (the four directories and url_mapping.json together) in
\* the enumerated file systems.
MaxFiles ==
    2

\* Sections of the large licence-conditions document.
BigSections ==
    3

\* Conditions of each section of the large licence-conditions document.
BigPerSection ==
    7

\* Documents of the large directory.
BulkFiles ==
    22

\* results[:20], the cap of both search_documents.
MaxResults ==
    20

\* ------------------------------------------------------------------- text

k_sections ==
    <<"s", "e", "c", "t", "i", "o", "n", "s">>
k_conditions ==
    <<"c", "o", "n", "d", "i", "t", "i", "o", "n", "s">>
k_condition_id ==
    <<"c", "o", "n", "d", "i", "t", "i", "o", "n", "_", "i", "d">>
k_condition_title ==
    <<"c", "o", "n", "d", "i", "t", "i", "o", "n", "_", "t", "i", "t", "l", "e">>
k_condition_text ==
    <<"c", "o", "n", "d", "i", "t", "i", "o", "n", "_", "t", "e", "x", "t">>
k_subsections ==
    <<"s", "u", "b", "s", "e", "c", "t", "i", "o", "n", "s">>
k_provisions ==
    <<"p", "r", "o", "v", "i", "s", "i", "o", "n", "s">>
k_provision_id ==
    <<"p", "r", "o", "v", "i", "s", "i", "o", "n", "_", "i", "d">>
k_provision_title ==
    <<"p", "r", "o", "v", "i", "s", "i", "o", "n", "_", "t", "i", "t", "l", "e">>
k_control ==
    <<"c", "o", "n", "t", "r", "o", "l">>
k_control_id ==
    <<"c", "o", "n", "t", "r", "o", "l", "_", "i", "d">>
k_control_title ==
    <<"c", "o", "n", "t", "r", "o", "l", "_", "t", "i", "t", "l", "e">>
k_control_purpose ==
    <<"c", "o", "n", "t", "r", "o", "l", "_", "p", "u", "r", "p", "o", "s", "e">>
k_aim ==
    <<"a", "i", "m">>
k_aim_number ==
    <<"a", "i", "m", "_", "n", "u", "m", "b", "e", "r">>
k_aim_title ==
    <<"a", "i", "m", "_", "t", "i", "t", "l", "e">>
k_title ==
    <<"t", "i", "t", "l", "e">>
k_rts_id ==
    <<"r", "t", "s", "_", "i", "d">>
k_mappings ==
    <<"m", "a", "p", "p", "i", "n", "g", "s">>
k_url ==
    <<"u", "r", "l">>
k_xref_groups ==
    <<"l", "c", "c", "p", "_", "o", "p", "e", "r", "a", "t", "i", "n", "g", "_", "l", "i", "c", "e", "n", "c", "e", "_", "c", "o", "n", "d", "i", "t", "i", "o", "n", "s", "_", "m", "a", "p", "p", "i", "n", "g", "s">>
k_lccp_id ==
    <<"l", "c", "c", "p", "_", "i", "d">>
k_lccp_title ==
    <<"l", "c", "c", "p", "_", "t", "i", "t", "l", "e">>
k_supporting_iso ==
    <<"s", "u", "p", "p", "o", "r", "t", "i", "n", "g", "_", "i", "s", "o", "2", "7", "0", "0", "1", "_", "c", "o", "n", "t", "r", "o", "l", "s">>
k_supporting_rts ==
    <<"s", "u", "p", "p", "o", "r", "t", "i", "n", "g", "_", "r", "t", "s">>
s_Unknown ==
    <<"U", "n", "k", "n", "o", "w", "n">>
s_Untitled ==
    <<"U", "n", "t", "i", "t", "l", "e", "d">>
s_RTS_Aim_ ==
    <<"R", "T", "S", " ", "A", "i", "m", " ">>
s_lccp ==
    <<"l", "c", "c", "p">>
s_iso27001 ==
    <<"i", "s", "o", "2", "7", "0", "0", "1">>
s_rts ==
    <<"r", "t", "s">>
s_indexes ==
    <<"i", "n", "d", "e", "x", "e", "s">>
s_RTS ==
    <<"R", "T", "S">>
s_LCCP ==
    <<"L", "C", "C", "P">>
s_XrefName ==
    <<"c", "r", "o", "s", "s", "-", "r", "e", "f", "e", "r", "e", "n", "c", "e", "-", "m", "a", "p", "p", "i", "n", "g", "-", "l", "c", "c", "p", "-", "i", "s", "o", "2", "7", "0", "0", "1", "-", "r", "t", "s">>
s_NotLoaded ==
    <<"C", "r", "o", "s", "s", "-", "r", "e", "f", "e", "r", "e", "n", "c", "e", " ", "m", "a", "p", "p", "i", "n", "g", " ", "n", "o", "t", " ", "l", "o", "a", "d", "e", "d">>
s_Provision_ ==
    <<"P", "r", "o", "v", "i", "s", "i", "o", "n", " ">>
s_not_found_in ==
    <<" ", "n", "o", "t", " ", "f", "o", "u", "n", "d", " ", "i", "n", " ">>
k_error ==
    <<"e", "r", "r", "o", "r">>
k_iso27001_controls ==
    <<"i", "s", "o", "2", "7", "0", "0", "1", "_", "c", "o", "n", "t", "r", "o", "l", "s">>
k_rts_chapters ==
    <<"r", "t", "s", "_", "c", "h", "a", "p", "t", "e", "r", "s">>
k_document_overview ==
    <<"d", "o", "c", "u", "m", "e", "n", "t", "_", "o", "v", "e", "r", "v", "i", "e", "w">>
k_text ==
    <<"t", "e", "x", "t">>
s_json ==
    <<".", "j", "s", "o", "n">>
s_bogus ==
    <<"b", "o", "g", "u", "s">>
v_111 ==
    <<"1", ".", "1", ".", "1">>
v_21 ==
    <<"2", ".", "1">>
v_31 ==
    <<"3", ".", "1">>
v_99 ==
    <<"9", ".", "9">>
v_FundProtection ==
    <<"F", "u", "n", "d", " ", "P", "r", "o", "t", "e", "c", "t", "i", "o", "n">>
v_OperatorsText ==
    <<"O", "p", "e", "r", "a", "t", "o", "r", "s", " ", "m", "u", "s", "t", " ", "p", "r", "o", "t", "e", "c", "t", " ", "c", "u", "s", "t", "o", "m", "e", "r", " ", "f", "u", "n", "d", "s", ".", ".", ".">>
v_fund ==
    <<"f", "u", "n", "d">>
v_Fund ==
    <<"F", "u", "n", "d">>
v_fund_protection ==
    <<"f", "u", "n", "d", " ", "p", "r", "o", "t", "e", "c", "t", "i", "o", "n">>
v_zz ==
    <<"z", "z">>
v_A5 ==
    <<"A", ".", "5">>
v_A8 ==
    <<"A", ".", "8">>
v_FundPolicy ==
    <<"F", "u", "n", "d", " ", "p", "o", "l", "i", "c", "y">>
v_FundFund ==
    <<"f", "u", "n", "d", ",", " ", "f", "u", "n", "d">>
v_Access ==
    <<"A", "c", "c", "e", "s", "s">>
v_RTS12id ==
    <<"R", "T", "S", "-", "1", "2">>
v_FundDisplay ==
    <<"F", "u", "n", "d", " ", "d", "i", "s", "p", "l", "a", "y">>
v_Funds ==
    <<"F", "u", "n", "d", "s">>
v_RTS_Aim_12 ==
    <<"R", "T", "S", " ", "A", "i", "m", " ", "1", "2">>
v_RTS_Aim_7 ==
    <<"R", "T", "S", " ", "A", "i", "m", " ", "7">>
v_Aim ==
    <<"A", "i", "m">>
v_RTS_12 ==
    <<"R", "T", "S", "_", "1", "2">>
v_RTS_07 ==
    <<"R", "T", "S", "_", "0", "7">>
v_RTS_7 ==
    <<"R", "T", "S", "_", "7">>
v_LCCP_111 ==
    <<"L", "C", "C", "P", "_", "1", ".", "1", ".", "1">>
v_url12 ==
    <<"h", "t", "t", "p", "s", ":", "/", "/", "e", "x", "a", "m", "p", "l", "e", ".", "o", "r", "g", "/", "r", "t", "s", "1", "2">>
v_url7 ==
    <<"h", "t", "t", "p", "s", ":", "/", "/", "e", "x", "a", "m", "p", "l", "e", ".", "o", "r", "g", "/", "r", "t", "s", "7">>
v_url111 ==
    <<"h", "t", "t", "p", "s", ":", "/", "/", "e", "x", "a", "m", "p", "l", "e", ".", "o", "r", "g", "/", "l", "c", "c", "p", "1", "1", "1">>
v_urlAim ==
    <<"h", "t", "t", "p", "s", ":", "/", "/", "e", "x", "a", "m", "p", "l", "e", ".", "o", "r", "g", "/", "a", "i", "m">>
v_rts_lower ==
    <<"r", "t", "s">>
v_R_T_S ==
    <<"R", " ", "t", " ", "s">>
v_ISO ==
    <<"I", "S", "O", " ", "2", "7", "0", "0", "1">>
v_l1 ==
    <<"l", "1">>
v_l2 ==
    <<"l", "2">>
v_l3 ==
    <<"l", "3">>
v_l4 ==
    <<"l", "4">>
v_lbad ==
    <<"l", "b", "a", "d">>
v_i1 ==
    <<"i", "1">>
v_i2 ==
    <<"i", "2">>
v_ibad ==
    <<"i", "b", "a", "d">>
v_r1 ==
    <<"r", "1">>
v_r2 ==
    <<"r", "2">>
v_r3 ==
    <<"r", "3">>
v_url_mapping ==
    <<"u", "r", "l", "_", "m", "a", "p", "p", "i", "n", "g">>
s_ErrorGenerating ==
    <<"E", "r", "r", "o", "r", " ", "g", "e", "n", "e", "r", "a", "t", "i", "n", "g", " ", "a", "n", "s", "w", "e", "r", ":", " ">>
s_LCCP_ ==
    <<"L", "C", "C", "P", " ">>
v_timeout ==
    <<"t", "i", "m", "e", "o", "u", "t">>
v_answer ==
    <<"P", "r", "o", "t", "e", "c", "t", " ", "c", "u", "s", "t", "o", "m", "e", "r", " ", "f", "u", "n", "d", "s", ".">>
v_sel_lccp ==
    <<"L", "C", "C", "P", " ", "1", ".", "1", ".", "1">>
v_sel_two ==
    <<"R", "T", "S", " ", "A", "i", "m", " ", "1", "2", ",", " ", "A", ".", "5">>
v_url07 ==
    <<"h", "t", "t", "p", "s", ":", "/", "/", "e", "x", "a", "m", "p", "l", "e", ".", "o", "r", "g", "/", "r", "t", "s", "0", "7">>
v_l5 ==
    <<"l", "5">>
v_i3 ==
    <<"i", "3">>
v_r4 ==
    <<"r", "4">>
k_document_reference ==
    <<"d", "o", "c", "u", "m", "e", "n", "t", "_", "r", "e", "f", "e", "r", "e", "n", "c", "e">>
k_section_id ==
    <<"s", "e", "c", "t", "i", "o", "n", "_", "i", "d">>
k_section_title ==
    <<"s", "e", "c", "t", "i", "o", "n", "_", "t", "i", "t", "l", "e">>
s_Section_ ==
    <<" ", "S", "e", "c", "t", "i", "o", "n", " ">>
v_r5 ==
    <<"r", "5">>
k_aim_id ==
    <<"a", "i", "m", "_", "i", "d">>
v_zzz ==
    <<"z", "z", "z">>

Digits ==
    {"0", "1", "2", "3", "4", "5", "6", "7", "8", "9"}

UpperCase ==
    <<"A", "B", "C", "D", "E", "F", "G", "H", "I", "J", "K", "L", "M",
      "N", "O", "P", "Q", "R", "S", "T", "U", "V", "W", "X", "Y", "Z">>

LowerCase ==
    <<"a", "b", "c", "d", "e", "f", "g", "h", "i", "j", "k", "l", "m",
      "n", "o", "p", "q", "r", "s", "t", "u", "v", "w", "x", "y", "z">>

\* F applied to the value of v, with v evaluated once.
Bind(v, F(_)) ==
    CHOOSE r \in {F(x) : x \in {v}} : TRUE

\* str.lower() of one character.
LowerChar(c) ==
    IF \E i \in 1..26 : UpperCase[i] = c
    THEN LowerCase[CHOOSE i \in 1..26 : UpperCase[i] = c]
    ELSE c

\* str.upper() of one character.
UpperChar(c) ==
    IF \E i \in 1..26 : LowerCase[i] = c
    THEN UpperCase[CHOOSE i \in 1..26 : LowerCase[i] = c]
    ELSE c

\* str.lower()
Lower(s) ==
    Bind(s, LAMBDA t : <<>> \o [i \in 1..Len(t) |-> LowerChar(t[i])])

\* str.upper()
Upper(s) ==
    Bind(s, LAMBDA t : <<>> \o [i \in 1..Len(t) |-> UpperChar(t[i])])

\* s.replace(" ", "")
RECURSIVE StripSpaces(_)
StripSpaces(s) ==
    IF s = <<>> THEN <<>>
    ELSE IF Head(s) = " " THEN StripSpaces(Tail(s))
    ELSE <<Head(s)>> \o StripSpaces(Tail(s))

\* Whether q occurs in s at position i.
MatchAt(s, q, i) ==
    /\ i + Len(q) - 1 <= Len(s)
    /\ \A k \in 1..Len(q) : s[i + k - 1] = q[k]

\* q in s
Contains(s, q) ==
    \E i \in 1..(Len(s) + 1) : MatchAt(s, q, i)

\* The positions of s at which q occurs.
Occurrences(s, q) ==
    {i \in 1..Len(s) : MatchAt(s, q, i)}

\* s.count(q) for a non-empty q: the occurrences of q counted from the left
\* without overlap, each next one starting behind the end of the one before.
RECURSIVE CountFrom(_, _, _)
CountFrom(occ, n, i) ==
    LET rest == {j \in occ : j >= i}
    IN  IF rest = {} THEN 0
        ELSE 1 + CountFrom(occ, n, n + CHOOSE j \in rest :
                                          \A k \in rest : j <= k)

\* Count with a bug: every occurrence is counted, overlapping ones too.
CountOverlapping(s, q) ==
    IF q = <<>> THEN Len(s) + 1 ELSE Cardinality(Occurrences(s, q))

\* s.count(q); the empty q occurs len(s) + 1 times.
Count(s, q) ==
    IF q = <<>> THEN Len(s) + 1 ELSE CountFrom(Occurrences(s, q), Len(q), 1)

\* The decimal digits of a natural number.
RECURSIVE NatToStr(_)
NatToStr(n) ==
    IF n < 10 THEN <<CHOOSE d \in Digits : d = ToString(n)>>
    ELSE NatToStr(n \div 10) \o NatToStr(n % 10)

\* str(n) of an integer.
IntToStr(n) ==
    IF n < 0 THEN <<"-">> \o NatToStr(-n) ELSE NatToStr(n)

\* ------------------------------------------------------------ JSON values

JNull ==
    [t |-> "null", s |-> <<>>, n |-> 0, kv |-> <<>>]

JStr(s) ==
    [t |-> "str", s |-> s, n |-> 0, kv |-> <<>>]

JNum(n) ==
    [t |-> "num", s |-> <<>>, n |-> n, kv |-> <<>>]

KV(k, v) ==
    [k |-> k, v |-> v]

JObj(members) ==
    [t |-> "obj", s |-> <<>>, n |-> 0, kv |-> members]

JArr(items) ==
    [t |-> "arr", s |-> <<>>, n |-> 0,
     kv |-> Bind(items, LAMBDA a : <<>> \o [i \in 1..Len(a) |-> KV(<<>>, a[i])])]

\* key in d, for a dict d.
HasKey(d, key) ==
    \E i \in 1..Len(d.kv) : d.kv[i].k = key

\* d[key], for a dict d with that key.
Lookup(d, key) ==
    d.kv[CHOOSE i \in 1..Len(d.kv) : d.kv[i].k = key].v

\* d.get(key, default), for a dict d.
Get(d, key, default) ==
    IF HasKey(d, key) THEN Lookup(d, key) ELSE default

\* The items of a list.
Items(a) ==
    <<>> \o [i \in 1..Len(a.kv) |-> a.kv[i].v]

\* bool(v)
Truthy(v) ==
    CASE v.t = "null" -> FALSE
      [] v.t = "str" -> v.s # <<>>
      [] v.t = "num" -> v.n # 0
      [] OTHER -> v.kv # <<>>

\* a or b
PyOr(a, b) ==
    IF Truthy(a) THEN a ELSE b

\* The escapes of json.dumps inside a string: the quote and the backslash.
RECURSIVE Escape(_)
Escape(s) ==
    IF s = <<>> THEN <<>>
    ELSE IF Head(s) \in {"\"", "\\"} THEN <<"\\", Head(s)>> \o Escape(Tail(s))
    ELSE <<Head(s)>> \o Escape(Tail(s))

Quoted(s) ==
    <<"\"">> \o Escape(s) \o <<"\"">>

\* json.dumps(v) with the default separators ", " and ": ".
RECURSIVE Dumps(_)
RECURSIVE DumpMembers(_, _, _)
DumpMembers(isObj, members, i) ==
    IF i > Len(members) THEN <<>>
    ELSE (IF i > 1 THEN <<",", " ">> ELSE <<>>)
         \o (IF isObj THEN Quoted(members[i].k) \o <<":", " ">> ELSE <<>>)
         \o Dumps(members[i].v)
         \o DumpMembers(isObj, members, i + 1)

Dumps(v) ==
    CASE v.t = "null" -> <<"n", "u", "l", "l">>
      [] v.t = "str" -> Quoted(v.s)
      [] v.t = "num" -> IntToStr(v.n)
      [] v.t = "arr" -> <<"[">> \o DumpMembers(FALSE, v.kv, 1) \o <<"]">>
      [] OTHER -> <<"{">> \o DumpMembers(TRUE, v.kv, 1) \o <<"}">>

\* str(v) inside an f-string, for the values an identifier field holds.
PyStr(v) ==
    CASE v.t = "str" -> v.s
      [] v.t = "num" -> IntToStr(v.n)
      [] v.t = "null" -> <<"N", "o", "n", "e">>
      [] OTHER -> Dumps(v)

\* ------------------------------------------------- Python on JSON values

\* The outcome of an evaluation that may raise.
Ok(v) ==
    [ok |-> TRUE, out |-> v]

Raise ==
    [ok |-> FALSE, out |-> <<>>]

\* key in v: a dict's keys, a list's items, a string's substrings; a number
\* or None raises TypeError.
PyIn(key, v) ==
    CASE v.t = "obj" -> Ok(HasKey(v, key))
      [] v.t = "arr" -> Ok(\E i \in 1..Len(v.kv) : v.kv[i].v = JStr(key))
      [] v.t = "str" -> Ok(Contains(v.s, key))
      [] OTHER -> Raise

\* v[key] for a string key: only a dict that has the key does not raise.
PyIndex(v, key) ==
    IF v.t = "obj" /\ HasKey(v, key) THEN Ok(Lookup(v, key)) ELSE Raise

\* for x in v: a list's items, a dict's keys, a string's characters; a
\* number or None raises TypeError.
PyIter(v) ==
    CASE v.t = "arr" -> Ok(Items(v))
      [] v.t = "obj" -> Ok(<<>> \o [i \in 1..Len(v.kv) |-> JStr(v.kv[i].k)])
      [] v.t = "str" -> Ok(<<>> \o [i \in 1..Len(v.s) |-> JStr(<<v.s[i]>>)])
      [] OTHER -> Raise

\* The concatenation of the sequences ss[i], ss[i + 1], ...
RECURSIVE FlattenFrom(_, _)
FlattenFrom(ss, i) ==
    IF i > Len(ss) THEN <<>> ELSE ss[i] \o FlattenFrom(ss, i + 1)

\* The concatenation of a sequence of sequences.
Flatten(ss) ==
    Bind(ss, LAMBDA t : FlattenFrom(t, 1))

\* What a loop whose iterations have the outcomes per returns: the exception
\* when an iteration raises, and otherwise what the iterations appended.
Appended(per) ==
    Bind(<<>> \o per, LAMBDA t :
        IF \E i \in 1..Len(t) : ~t[i].ok THEN Raise
        ELSE Ok(Flatten([i \in 1..Len(t) |-> t[i].out])))

\* ------------------------------------------------------- field extraction

\* The (id, title) tuple of one condition, with the defaults of .get.
ConditionPair(condition) ==
    [id |-> Get(condition, k_condition_id, JStr(s_Unknown)),
     title |-> Get(condition, k_condition_title, JStr(s_Untitled))]

\* The loop over the conditions of one section.
ConditionPairs(conds) ==
    IF \E i \in 1..Len(conds) : conds[i].t # "obj" THEN Raise
    ELSE Ok(<<>> \o [i \in 1..Len(conds) |-> ConditionPair(conds[i])])

\* SectionConditions with a bug: a condition that lacks condition_id or
\* condition_title is skipped.
SectionConditionsComplete(section) ==
    IF section.t # "obj" \/ ~HasKey(section, k_conditions) THEN Ok(<<>>)
    ELSE Bind(PyIter(Lookup(section, k_conditions)), LAMBDA it :
             IF ~it.ok THEN Raise
             ELSE ConditionPairs(SelectSeq(it.out, LAMBDA c :
                     c.t # "obj" \/ (HasKey(c, k_condition_id)
                                      /\ HasKey(c, k_condition_title)))))

\* The body of the loop of extract_document_ids_from_lccp over the sections,
\* for one section.
SectionConditions(section) ==
    LET has == PyIn(k_conditions, section)
    IN  IF ~has.ok THEN Raise
        ELSE IF ~has.out THEN Ok(<<>>)
        ELSE LET conds == PyIndex(section, k_conditions)
             IN  IF ~conds.ok THEN Raise
                 ELSE Bind(PyIter(conds.out), LAMBDA it :
                          IF ~it.ok THEN Raise ELSE ConditionPairs(it.out))

\* The loop of extract_document_ids_from_lccp over the sections.
SectionsConditions(secs) ==
    Appended([i \in 1..Len(secs) |-> SectionConditions(secs[i])])

\* extract_document_ids_from_lccp(lccp_content): the (id, title) tuples of
\* the conditions of the sections, or the exception.
extract_document_ids_from_lccp(lccp_content) ==
    LET has == PyIn(k_sections, lccp_content)
    IN  IF ~has.ok THEN Raise
        ELSE IF ~has.out THEN Ok(<<>>)
        ELSE LET secs == PyIndex(lccp_content, k_sections)
             IN  IF ~secs.ok THEN Raise
                 ELSE Bind(PyIter(secs.out), LAMBDA it :
                          IF ~it.ok THEN Raise ELSE SectionsConditions(it.out))

\* "  - {id}: {title}", a line of build_framework_context for one entry.
EntryLine(id, title) ==
    <<" ", " ", "-", " ">> \o PyStr(id) \o <<":", " ">> \o PyStr(title)

\* value[:200] for the text of a condition: a string or a list is sliced,
\* any other value raises TypeError.
Sliceable(v) ==
    v.t \in {"str", "arr"}

\* The loop of build_framework_context over the conditions of a section.
ContextConditions(section) ==
    IF ~HasKey(section, k_conditions) THEN Ok(<<>>)
    ELSE Bind(PyIter(Lookup(section, k_conditions)), LAMBDA it :
        IF ~it.ok THEN Raise
        ELSE Appended([i \in 1..Len(it.out) |->
               IF it.out[i].t # "obj" THEN Raise
               ELSE IF ~Sliceable(Get(it.out[i], k_condition_text, JStr(<<>>)))
               THEN Raise
               ELSE Ok(<<EntryLine(
                          Get(it.out[i], k_condition_id, JStr(<<>>)),
                          Get(it.out[i], k_condition_title, JStr(<<>>)))>>)]))

\* The loop of build_framework_context over the provisions of one
\* subsection.
ContextProvisions(subsection) ==
    LET has == PyIn(k_provisions, subsection)
    IN  IF ~has.ok THEN Raise
        ELSE IF ~has.out THEN Ok(<<>>)
        ELSE LET provs == PyIndex(subsection, k_provisions)
             IN  IF ~provs.ok THEN Raise
                 ELSE Bind(PyIter(provs.out), LAMBDA it :
                     IF ~it.ok THEN Raise
                     ELSE Appended([i \in 1..Len(it.out) |->
                            IF it.out[i].t # "obj" THEN Raise
                            ELSE Ok(<<EntryLine(
                                   Get(it.out[i], k_provision_id, JStr(<<>>)),
                                   Get(it.out[i], k_provision_title,
                                       JStr(<<>>)))>>)]))

\* The loop of build_framework_context over the subsections of a section.
ContextSubsections(section) ==
    IF ~HasKey(section, k_subsections) THEN Ok(<<>>)
    ELSE Bind(PyIter(Lookup(section, k_subsections)), LAMBDA it :
        IF ~it.ok THEN Raise
        ELSE Appended([i \in 1..Len(it.out) |-> ContextProvisions(it.out[i])]))

\* The lines build_framework_context appends for one section: its heading,
\* its conditions, then the provisions of its subsections.
ContextSection(doc_ref, section) ==
    IF section.t # "obj" THEN Raise
    ELSE Appended(<<
           Ok(<<<<"\n">> \o PyStr(doc_ref) \o s_Section_
                \o PyStr(Get(section, k_section_id, JStr(<<>>))) \o <<":", " ">>
                \o PyStr(Get(section, k_section_title, JStr(<<>>)))>>),
           ContextConditions(section),
           ContextSubsections(section)>>)

\* build_framework_context(documents), the lines of its loop over
\* documents["lccp"] for the document {"data": doc_data}, or the exception.
build_framework_context(doc_data) ==
    IF doc_data.t # "obj" THEN Raise
    ELSE IF ~HasKey(doc_data, k_sections) THEN Ok(<<>>)
    ELSE Bind(PyIter(Lookup(doc_data, k_sections)), LAMBDA it :
        IF ~it.ok THEN Raise
        ELSE Appended([i \in 1..Len(it.out) |->
               ContextSection(Get(doc_data, k_document_reference,
                                  JStr(s_LCCP)), it.out[i])]))

\* extract_document_ids_from_rts with a bug: the identifier is built from
\* aim_id, which the code reads and leaves unused, instead of aim_number.
extract_document_ids_from_rts_aim_id(rts_content) ==
    IF rts_content.t # "obj" THEN Raise
    ELSE LET aim == Get(rts_content, k_aim, JObj(<<>>))
         IN  IF ~Truthy(aim) THEN Ok(<<>>)
             ELSE IF aim.t # "obj" THEN Raise
             ELSE Ok(<<[id |-> JStr(s_RTS_Aim_ \o
                                PyStr(Get(aim, k_aim_id, JStr(s_Unknown)))),
                        title |-> Get(aim, k_aim_title, JStr(s_Untitled))]>>)

\* extract_document_ids_from_rts(rts_content): one tuple for a truthy aim.
extract_document_ids_from_rts(rts_content) ==
    IF rts_content.t # "obj" THEN Raise
    ELSE LET aim == Get(rts_content, k_aim, JObj(<<>>))
         IN  IF ~Truthy(aim) THEN Ok(<<>>)
             ELSE IF aim.t # "obj" THEN Raise
             ELSE Ok(<<[id |-> JStr(s_RTS_Aim_ \o
                                PyStr(Get(aim, k_aim_number, JStr(s_Unknown)))),
                        title |-> Get(aim, k_aim_title, JStr(s_Untitled))]>>)

\* The control lookup of the iso27001 branch of search_documents.
IsoPair(content) ==
    IF content.t # "obj" THEN Raise
    ELSE LET control == Get(content, k_control, JObj(<<>>))
         IN  IF control.t # "obj" THEN Raise
             ELSE Ok(<<[id |-> Get(control, k_control_id, JStr(s_Unknown)),
                        title |-> Get(control, k_control_title,
                                      JStr(s_Untitled))]>>)

\* ------------------------------------------------------------------ search

FrameworkNames ==
    <<s_lccp, s_iso27001, s_rts>>

StoreKeys ==
    {s_lccp, s_iso27001, s_rts, s_indexes}

\* [framework] if framework else ["lccp", "iso27001", "rts"]
FrameworksToSearch(framework) ==
    IF Truthy(framework) THEN <<framework.s>> ELSE FrameworkNames

\* documents[fw], for a key of the store.
StoreAt(docs, fw) ==
    CASE fw = s_lccp -> docs.lccp
      [] fw = s_iso27001 -> docs.iso27001
      [] fw = s_rts -> docs.rts
      [] OTHER -> docs.indexes

\* Insert with a bug: the position n is placed before the positions of equal
\* key (the order of ties is reversed).
InsertBeforeTies(acc, score, n) ==
    LET p == Cardinality({i \in 1..Len(acc) : score[acc[i]] > score[n]})
    IN  SubSeq(acc, 1, p) \o <<n>> \o SubSeq(acc, p + 1, Len(acc))

\* One step of the sort: the position n of the list is placed behind the
\* positions already sorted whose key is at least its key.
Insert(acc, score, n) ==
    LET p == Cardinality({i \in 1..Len(acc) : score[acc[i]] >= score[n]})
    IN  SubSeq(acc, 1, p) \o <<n>> \o SubSeq(acc, p + 1, Len(acc))

RECURSIVE SortInto(_, _, _)
SortInto(acc, score, n) ==
    IF n > Len(score) THEN acc
    ELSE Bind(Insert(acc, score, n), LAMBDA a : SortInto(a, score, n + 1))

\* list.sort(key=..., reverse=True) on the keys alone: the positions of the
\* list in sorted order.  The sort is stable and descending.
SortIdx(score) ==
    Bind(<<>> \o score, LAMBDA s : SortInto(<<>>, s, 1))

\* rs.sort(key=lambda x: score of x, reverse=True)
SortDesc(rs, score) ==
    Bind(SortIdx(score), LAMBDA idx : <<>> \o [i \in 1..Len(rs) |-> rs[idx[i]]])

\* Top with a bug: the list is not cut.
TopAll(rs) ==
    rs

\* results[:20]
Top(rs) ==
    SubSeq(rs, 1, IF Len(rs) < MaxResults THEN Len(rs) ELSE MaxResults)

\* The results the application's search_documents appends for a document
\* whose serialised content holds the query n times: one for each extracted
\* (id, title).
AppResults(fw, doc, pos, pairs, n) ==
    IF ~pairs.ok THEN Raise
    ELSE Ok(<<>> \o [i \in 1..Len(pairs.out) |->
               [framework |-> fw,
                filename |-> doc.filename,
                title |-> pairs.out[i].title,
                id |-> pairs.out[i].id,
                content |-> pos,
                relevance |-> n]])

\* The (id, title) tuples of a matching document, by framework.
AppPairs(fw, content) ==
    CASE fw = s_iso27001 -> IsoPair(content)
      [] fw = s_lccp -> extract_document_ids_from_lccp(content)
      [] OTHER -> extract_document_ids_from_rts(content)

\* The body of the loop of the application's search_documents for the
\* document at position pos of documents[fw]: the results it appends, or the
\* exception.  A result holds its document ("content") by reference: pos.
AppDocResults(fw, doc, pos, query_lower) ==
    Bind(Lower(Dumps(doc.content)), LAMBDA content_str :
        IF ~Contains(content_str, query_lower) THEN Ok(<<>>)
        ELSE Bind(<<AppPairs(fw, doc.content),
                    Count(content_str, query_lower)>>,
                  LAMBDA pn : AppResults(fw, doc, pos, pn[1], pn[2])))

\* The results of one framework, before sorting.  Iterating the dict of
\* index documents yields its keys, and doc["content"] of a key raises.
AppFrameworkResults(docs, fw, query_lower) ==
    IF fw \notin StoreKeys THEN Ok(<<>>)
    ELSE IF fw = s_indexes
    THEN (IF docs.indexes = <<>> THEN Ok(<<>>) ELSE Raise)
    ELSE Appended([i \in 1..Len(StoreAt(docs, fw)) |->
                     AppDocResults(fw, StoreAt(docs, fw)[i], i, query_lower)])

\* AppMatches with a bug: the query is compared as given, not lower-cased.
AppMatchesCaseSensitive(docs, query, framework) ==
    Bind(<<FrameworksToSearch(framework), query>>, LAMBDA a :
        Appended([i \in 1..Len(a[1]) |->
                    AppFrameworkResults(docs, a[1][i], a[2])]))

\* The results list of the application's search_documents before
\* results.sort: the matches in encounter order.
AppMatches(docs, query, framework) ==
    Bind(<<FrameworksToSearch(framework), Lower(query)>>, LAMBDA a :
        Appended([i \in 1..Len(a[1]) |->
                    AppFrameworkResults(docs, a[1][i], a[2])]))

\* search_documents of src/streamlit_app.py.
search_documents(docs, query, framework) ==
    Bind(AppMatches(docs, query, framework), LAMBDA m :
        IF ~m.ok THEN Raise
        ELSE Ok(Top(SortDesc(m.out,
                    [i \in 1..Len(m.out) |-> m.out[i].relevance]))))

\* The match_info of the server's search_documents for a matching document.
MatchInfo(fw, doc, n) ==
    LET c == doc.content
    IN  IF c.t # "obj" THEN Raise
        ELSE Ok(<<[framework |-> fw,
                   filename |-> doc.filename,
                   title |-> PyOr(Get(c, k_control_title, JNull),
                             PyOr(Get(c, k_provision_title, JNull),
                             PyOr(Get(c, k_title, JNull), JStr(s_Unknown)))),
                   id |-> PyOr(Get(c, k_control_id, JNull),
                          PyOr(Get(c, k_provision_id, JNull),
                          PyOr(Get(c, k_rts_id, JNull), JStr(doc.filename)))),
                   relevance_score |-> n]>>)

\* The body of the loop of the server's search_documents for one document.
ServerDocResults(fw, doc, query_lower) ==
    Bind(Lower(Dumps(doc.content)), LAMBDA content :
        IF ~Contains(content, query_lower) THEN Ok(<<>>)
        ELSE MatchInfo(fw, doc, Count(content, query_lower)))

\* The results of one framework in the server: a framework that is no key
\* of the store, or whose value is empty, is skipped.
ServerFrameworkResults(docs, fw, query_lower) ==
    IF fw \notin StoreKeys \/ StoreAt(docs, fw) = <<>> THEN Ok(<<>>)
    ELSE IF fw = s_indexes THEN Raise
    ELSE Appended([i \in 1..Len(StoreAt(docs, fw)) |->
                     ServerDocResults(fw, StoreAt(docs, fw)[i], query_lower)])

\* The results list of the server's search_documents before results.sort.
ServerMatches(docs, query, framework) ==
    Bind(<<FrameworksToSearch(framework), Lower(query)>>, LAMBDA a :
        Appended([i \in 1..Len(a[1]) |->
                    ServerFrameworkResults(docs, a[1][i], a[2])]))

\* search_documents of src/Server/ukgc_regulatory_mcp_server.py.
server_search_documents(docs, query, framework) ==
    Bind(ServerMatches(docs, query, framework), LAMBDA m :
        IF ~m.ok THEN Raise
        ELSE Ok(Top(SortDesc(m.out,
                    [i \in 1..Len(m.out) |-> m.out[i].relevance_score]))))

\* -------------------------------------------------------- cross-references

\* key in documents["indexes"]
IndexLoaded(docs, name) ==
    \E i \in 1..Len(docs.indexes) : docs.indexes[i].name = name

\* documents["indexes"][name]
IndexAt(docs, name) ==
    docs.indexes[CHOOSE i \in 1..Len(docs.indexes) :
                    docs.indexes[i].name = name].content

\* What the scan of one mapping group meets, in order: "raise" where the
\* code would raise, and otherwise the provisions of the group.
GroupEvents(group) ==
    IF group.t # "obj" THEN <<[raise |-> TRUE, provision |-> JNull]>>
    ELSE LET it == PyIter(Get(group, k_mappings, JArr(<<>>)))
         IN  IF ~it.ok THEN <<[raise |-> TRUE, provision |-> JNull]>>
             ELSE [i \in 1..Len(it.out) |->
                     [raise |-> it.out[i].t # "obj",
                      provision |-> it.out[i]]]

\* provision.get("lccp_id") == provision_id and framework == "lccp"
ProvisionMatches(provision, provision_id, framework) ==
    /\ Get(provision, k_lccp_id, JNull) = JStr(provision_id)
    /\ framework = s_lccp

ErrorResult(msg) ==
    JObj(<<KV(k_error, JStr(msg))>>)

\* get_cross_references with a bug: an index that is not loaded is read as
\* an empty one, documents["indexes"].get(name, {}).
get_cross_references_default(docs, provision_id, framework) ==
    Ok(ErrorResult(s_Provision_ \o provision_id \o s_not_found_in
                   \o framework))

\* get_cross_references(provision_id, framework) of the server.
get_cross_references(docs, provision_id, framework) ==
    IF ~IndexLoaded(docs, s_XrefName) THEN Ok(ErrorResult(s_NotLoaded))
    ELSE LET mapping == IndexAt(docs, s_XrefName)
             notFound == Ok(ErrorResult(s_Provision_ \o provision_id
                                        \o s_not_found_in \o framework))
         IN  IF mapping.t # "obj" THEN Raise
             ELSE LET groups == PyIter(Get(mapping, k_xref_groups, JArr(<<>>)))
                  IN  IF ~groups.ok THEN Raise
                      ELSE LET ev == Flatten([i \in 1..Len(groups.out) |->
                                        GroupEvents(groups.out[i])])
                               hit == {i \in 1..Len(ev) :
                                         \/ ev[i].raise
                                         \/ ProvisionMatches(ev[i].provision,
                                               provision_id, framework)}
                           IN  IF hit = {} THEN notFound
                               ELSE LET first == CHOOSE i \in hit :
                                                   \A j \in hit : i <= j
                                        p == ev[first].provision
                                    IN  IF ev[first].raise THEN Raise
                                        ELSE Ok(JObj(<<
                                          KV(k_provision_id, JStr(provision_id)),
                                          KV(k_title, Get(p, k_lccp_title, JNull)),
                                          KV(k_iso27001_controls,
                                             Get(p, k_supporting_iso, JArr(<<>>))),
                                          KV(k_rts_chapters,
                                             Get(p, k_supporting_rts, JArr(<<>>)))>>))

\* ------------------------------------------------------------ URL resolver

Whitespace ==
    {" ", "\t", "\n", "\r"}

\* str.strip()
RECURSIVE Strip(_)
Strip(s) ==
    IF s = <<>> THEN s
    ELSE IF Head(s) \in Whitespace THEN Strip(Tail(s))
    ELSE IF s[Len(s)] \in Whitespace THEN Strip(SubSeq(s, 1, Len(s) - 1))
    ELSE s

\* re.search(r'(\d+)', s): the first run of digits, or the empty sequence
\* when there is no digit.
FirstDigits(s) ==
    LET ds == {i \in 1..Len(s) : s[i] \in Digits}
    IN  IF ds = {} THEN <<>>
        ELSE LET a == CHOOSE i \in ds : \A j \in ds : i <= j
                 b == CHOOSE j \in a..Len(s) :
                        /\ \A k \in a..j : s[k] \in Digits
                        /\ (j = Len(s) \/ s[j + 1] \notin Digits)
             IN  SubSeq(s, a, b)

\* str.zfill(2), for a run of digits.
Zfill2(s) ==
    IF Len(s) < 2 THEN [i \in 1..(2 - Len(s)) |-> "0"] \o s ELSE s

\* framework.upper().replace(" ", "").strip()
NormalizeFramework(framework) ==
    Strip(StripSpaces(Upper(framework)))

\* LookupAttempts with a bug: the unpadded key is tried before the padded.
LookupAttemptsUnpadded(framework, regulation_id) ==
    LET fw_upper == NormalizeFramework(framework)
        aim_number == FirstDigits(regulation_id)
    IN  IF fw_upper = s_RTS /\ aim_number # <<>>
        THEN <<s_RTS \o <<"_">> \o aim_number,
               s_RTS \o <<"_">> \o Zfill2(aim_number), regulation_id>>
        ELSE <<fw_upper \o <<"_">> \o regulation_id, regulation_id>>

\* LookupAttempts with a bug: for RTS the raw identifier is tried whether or
\* not the identifier holds a digit.
LookupAttemptsRaw(framework, regulation_id) ==
    LET fw_upper == NormalizeFramework(framework)
        aim_number == FirstDigits(regulation_id)
    IN  IF fw_upper = s_RTS
        THEN (IF aim_number = <<>> THEN <<regulation_id>>
              ELSE <<s_RTS \o <<"_">> \o Zfill2(aim_number),
                     s_RTS \o <<"_">> \o aim_number,
                     regulation_id>>)
        ELSE IF fw_upper = s_LCCP
        THEN <<s_LCCP \o <<"_">> \o regulation_id, regulation_id>>
        ELSE <<fw_upper \o <<"_">> \o regulation_id, regulation_id>>

\* lookup_attempts of get_regulation_url.
LookupAttempts(framework, regulation_id) ==
    LET fw_upper == NormalizeFramework(framework)
        aim_number == FirstDigits(regulation_id)
    IN  IF fw_upper = s_RTS
        THEN (IF aim_number = <<>> THEN <<>>
              ELSE <<s_RTS \o <<"_">> \o Zfill2(aim_number),
                     s_RTS \o <<"_">> \o aim_number,
                     regulation_id>>)
        ELSE IF fw_upper = s_LCCP
        THEN <<s_LCCP \o <<"_">> \o regulation_id, regulation_id>>
        ELSE <<fw_upper \o <<"_">> \o regulation_id, regulation_id>>

\* Attempt with a bug: the url of a present key is returned without the
\* test "if url", so that an entry without url ends the lookup.
AttemptNoUrlCheck(mappings, key) ==
    LET has == PyIn(key, mappings)
    IN  IF ~has.ok THEN [kind |-> "raise", url |-> JNull]
        ELSE IF ~has.out THEN [kind |-> "miss", url |-> JNull]
        ELSE LET e == PyIndex(mappings, key)
             IN  IF ~e.ok \/ e.out.t # "obj"
                 THEN [kind |-> "raise", url |-> JNull]
                 ELSE [kind |-> "url", url |-> Get(e.out, k_url, JNull)]

\* What one lookup attempt does: "miss" (the key is absent, or its entry has
\* no truthy url), "raise", or "url" with the url.
Attempt(mappings, key) ==
    LET has == PyIn(key, mappings)
    IN  IF ~has.ok THEN [kind |-> "raise", url |-> JNull]
        ELSE IF ~has.out THEN [kind |-> "miss", url |-> JNull]
        ELSE LET e == PyIndex(mappings, key)
             IN  IF ~e.ok \/ e.out.t # "obj"
                 THEN [kind |-> "raise", url |-> JNull]
                 ELSE LET url == Get(e.out, k_url, JNull)
                      IN  IF Truthy(url) THEN [kind |-> "url", url |-> url]
                          ELSE [kind |-> "miss", url |-> JNull]

\* get_regulation_url(framework, regulation_id) over the session's
\* url_mapping m: the url, None (JNull), or the exception.
get_regulation_url(m, framework, regulation_id) ==
    IF ~Truthy(m) THEN Ok(JNull)
    ELSE IF m.t # "obj" THEN Raise
    ELSE LET mappings == Get(m, k_mappings, JObj(<<>>))
         IN  IF ~Truthy(mappings) THEN Ok(JNull)
             ELSE LET keys == LookupAttempts(framework, regulation_id)
                      at == [i \in 1..Len(keys) |-> Attempt(mappings, keys[i])]
                      hit == {i \in 1..Len(keys) : at[i].kind # "miss"}
                  IN  IF hit = {} THEN Ok(JNull)
                      ELSE LET first == CHOOSE i \in hit : \A j \in hit : i <= j
                           IN  IF at[first].kind = "raise" THEN Raise
                               ELSE Ok(at[first].url)

\* The two icons of the labels, each one character of the text: U+1F517
\* (link) and U+1F4C4 (page).
LinkIcon ==
    <<"U+1F517">>

PageIcon ==
    <<"U+1F4C4">>

\* format_regulation_with_link with a bug: the link is written whether or
\* not a url was found.
format_regulation_with_link_always(m, framework, regulation_id, title) ==
    LET url == get_regulation_url(m, framework, regulation_id)
    IN  IF ~url.ok THEN Raise
        ELSE Ok(LinkIcon \o <<" ", "[">> \o framework \o <<" ">>
                \o regulation_id \o <<":", " ">> \o title \o <<"]", "(">>
                \o PyStr(url.out) \o <<")">>)

\* format_regulation_with_link(framework, regulation_id, title): the text
\* of the label.
format_regulation_with_link(m, framework, regulation_id, title) ==
    LET url == get_regulation_url(m, framework, regulation_id)
    IN  IF ~url.ok THEN Raise
        ELSE IF Truthy(url.out)
        THEN Ok(LinkIcon \o <<" ", "[">> \o framework \o <<" ">>
                \o regulation_id \o <<":", " ">> \o title \o <<"]", "(">>
                \o PyStr(url.out) \o <<")">>)
        ELSE Ok(PageIcon \o <<" ">> \o framework \o <<" ">>
                \o regulation_id \o <<":", " ">> \o title)


\* ------------------------------------------------------------- AI answers

\* s.split(c) for a one-character separator.
RECURSIVE Split(_, _)
Split(s, c) ==
    LET at == {i \in 1..Len(s) : s[i] = c}
    IN  IF at = {} THEN <<s>>
        ELSE LET a == CHOOSE i \in at : \A j \in at : i <= j
             IN  <<SubSeq(s, 1, a - 1)>> \o Split(SubSeq(s, a + 1, Len(s)), c)

\* [id.strip() for id in selected_ids_text.split(',')] of the stripped text
\* of the selection response.
SelectedIds(text) ==
    Bind(Split(Strip(text), ","), LAMBDA ids :
        <<>> \o [i \in 1..Len(ids) |-> Strip(ids[i])])

\* What a loop inside a try block leaves in the list it appends to: what the
\* iterations appended up to and including the first one that raises.
AppendedUntil(per) ==
    Bind(<<>> \o per, LAMBDA t :
        LET bad == {i \in 1..Len(t) : ~t[i].ok}
            last == IF bad = {} THEN Len(t)
                    ELSE CHOOSE i \in bad : \A j \in bad : i <= j
        IN  [ok |-> bad = {},
             out |-> Flatten([i \in 1..last |-> t[i].out])])

\* An entry of relevant_docs; it holds its document by reference: pos.
RelevantDoc(fw, id, title, pos) ==
    [framework |-> fw, id |-> id, title |-> title, content |-> pos]

\* The entries the selection loop appends for one (cond_id, cond_title): one
\* for each selected id with cond_id in sel_id or sel_id in f"LCCP {cond_id}".
\* A cond_id that is no string raises TypeError at the first test.
LccpPairSelected(pair, pos, selected_ids) ==
    IF pair.id.t # "str" THEN Raise
    ELSE Ok(SelectSeq([i \in 1..Len(selected_ids) |->
                         [hit |-> \/ Contains(selected_ids[i], pair.id.s)
                                  \/ Contains(s_LCCP_ \o pair.id.s,
                                              selected_ids[i]),
                          doc |-> RelevantDoc(s_lccp, pair.id, pair.title, pos)]],
                      LAMBDA e : e.hit))

\* The same for one (rts_id, rts_title): str(rts_id).lower() in
\* sel_id.lower() or sel_id.lower() in str(rts_id).lower().
RtsPairSelected(pair, pos, selected_ids) ==
    Ok(SelectSeq([i \in 1..Len(selected_ids) |->
                    [hit |-> \/ Contains(Lower(selected_ids[i]),
                                         Lower(PyStr(pair.id)))
                             \/ Contains(Lower(PyStr(pair.id)),
                                         Lower(selected_ids[i])),
                     doc |-> RelevantDoc(s_rts, pair.id, pair.title, pos)]],
                 LAMBDA e : e.hit))

\* The same for the control of an iso27001 document: control_id and
\* (control_id in sel_id or sel_id in control_id).
IsoSelected(content, pos, selected_ids) ==
    IF content.t # "obj" THEN Raise
    ELSE LET control == Get(content, k_control, JObj(<<>>))
         IN  IF control.t # "obj" THEN Raise
             ELSE LET control_id == Get(control, k_control_id, JStr(<<>>))
                      control_title == Get(control, k_control_title, JStr(<<>>))
                  IN  IF ~Truthy(control_id) THEN Ok(<<>>)
                      ELSE IF control_id.t # "str" THEN Raise
                      ELSE Ok(SelectSeq([i \in 1..Len(selected_ids) |->
                             [hit |-> \/ Contains(selected_ids[i], control_id.s)
                                      \/ Contains(control_id.s, selected_ids[i]),
                              doc |-> RelevantDoc(s_iso27001, control_id,
                                                  control_title, pos)]],
                             LAMBDA e : e.hit))

\* Lists of [hit, doc] turned into the documents appended.
Docs(r) ==
    IF ~r.ok THEN Raise
    ELSE Ok(<<>> \o [i \in 1..Len(r.out) |-> r.out[i].doc])

\* The body of the selection loop for the document at position pos of
\* documents[fw].
DocSelected(fw, doc, pos, selected_ids) ==
    CASE fw = s_lccp ->
           Bind(extract_document_ids_from_lccp(doc.content), LAMBDA p :
               IF ~p.ok THEN Raise
               ELSE AppendedUntil([i \in 1..Len(p.out) |->
                      Docs(LccpPairSelected(p.out[i], pos, selected_ids))]))
      [] fw = s_rts ->
           Bind(extract_document_ids_from_rts(doc.content), LAMBDA p :
               IF ~p.ok THEN Raise
               ELSE AppendedUntil([i \in 1..Len(p.out) |->
                      Docs(RtsPairSelected(p.out[i], pos, selected_ids))]))
      [] OTHER -> Docs(IsoSelected(doc.content, pos, selected_ids))

\* The selection loop: for fw in ["lccp", "rts", "iso27001"], for doc in
\* documents[fw].
SelectedDocs(docs, selected_ids) ==
    LET fws == <<s_lccp, s_rts, s_iso27001>>
    IN  AppendedUntil([f \in 1..3 |->
            AppendedUntil([i \in 1..Len(StoreAt(docs, fws[f])) |->
                DocSelected(fws[f], StoreAt(docs, fws[f])[i], i,
                            selected_ids)])])

\* The fallback of one framework: the first entry of its first document.
FallbackOf(fw, docs) ==
    IF StoreAt(docs, fw) = <<>> THEN Ok(<<>>)
    ELSE LET content == StoreAt(docs, fw)[1].content
             p == CASE fw = s_lccp -> extract_document_ids_from_lccp(content)
                    [] fw = s_rts -> extract_document_ids_from_rts(content)
                    [] OTHER -> IsoSelected(content, 1, <<<<>>>>)
         IN  IF ~p.ok THEN Raise
             ELSE IF p.out = <<>> THEN Ok(<<>>)
             ELSE IF fw = s_iso27001 THEN Ok(<<p.out[1].doc>>)
             ELSE Ok(<<RelevantDoc(fw, p.out[1].id, p.out[1].title, 1)>>)

\* if not relevant_docs: the first of each type, lccp, rts, iso27001.
Fallback(docs) ==
    AppendedUntil(<<FallbackOf(s_lccp, docs), FallbackOf(s_rts, docs),
                    FallbackOf(s_iso27001, docs)>>)

\* The first try block of answer_with_ai, given the reply of the service to
\* the selection request: relevant_docs as the block leaves it, and whether
\* the block ended in its except clause.
Selection(docs, sel) ==
    IF ~sel.ok THEN Raise
    ELSE Bind(SelectedDocs(docs, SelectedIds(sel.text)), LAMBDA m :
             IF ~m.ok \/ m.out # <<>> THEN m ELSE Fallback(docs))

\* The entries of the summary of one framework, or the exception.
SummaryOf(fw, docs) ==
    Appended([i \in 1..Len(StoreAt(docs, fw)) |->
        LET content == StoreAt(docs, fw)[i].content
        IN  CASE fw = s_lccp -> extract_document_ids_from_lccp(content)
              [] fw = s_rts -> extract_document_ids_from_rts(content)
              [] OTHER ->
                   IF content.t # "obj" THEN Raise
                   ELSE LET control == Get(content, k_control, JObj(<<>>))
                        IN  IF control.t # "obj" THEN Raise
                            ELSE Ok(<<[id |-> Get(control, k_control_id,
                                                  JStr(<<>>)),
                                       title |-> Get(control, k_control_title,
                                                     JStr(<<>>))]>>)])

\* The summary of all documents the selection prompt carries: the entries
\* under LCCP CONDITIONS, RTS AIMS and ISO 27001 CONTROLS.
Summary(docs) ==
    Appended(<<SummaryOf(s_lccp, docs), SummaryOf(s_rts, docs),
               SummaryOf(s_iso27001, docs)>>)

\* The context of the answer prompt: relevant_docs[:5], or the sentence that
\* names the frameworks when relevant_docs is empty.
Context(relevant_docs) ==
    [generic |-> relevant_docs = <<>>,
     docs |-> SubSeq(relevant_docs, 1,
                     IF Len(relevant_docs) < 5 THEN Len(relevant_docs) ELSE 5)]

\* answer_with_ai with a bug: a failed answer request is sent once more.
answer_with_ai_retry(docs, sel, ans) ==
    Bind(Summary(docs), LAMBDA summary :
        IF ~summary.ok THEN Raise
        ELSE Bind(Selection(docs, sel), LAMBDA r :
            Ok([answer |-> IF ans.ok THEN ans.text
                           ELSE s_ErrorGenerating \o ans.text,
                relevant_docs |-> r.out,
                warned |-> ~r.ok,
                calls |-> <<[request |-> "selection",
                             summary |-> summary.out,
                             context |-> Context(<<>>)],
                            [request |-> "answer",
                             summary |-> <<>>,
                             context |-> Context(r.out)]>>
                          \o (IF ans.ok THEN <<>>
                              ELSE <<[request |-> "answer",
                                      summary |-> <<>>,
                                      context |-> Context(r.out)]>>)])))

\* answer_with_ai with a bug: the failure of the answer request is not
\* caught.
answer_with_ai_uncaught(docs, sel, ans) ==
    IF ~ans.ok THEN Raise
    ELSE Bind(Summary(docs), LAMBDA summary :
        IF ~summary.ok THEN Raise
        ELSE Bind(Selection(docs, sel), LAMBDA r :
            Ok([answer |-> ans.text,
                relevant_docs |-> r.out,
                warned |-> ~r.ok,
                calls |-> <<[request |-> "selection",
                             summary |-> summary.out,
                             context |-> Context(<<>>)],
                            [request |-> "answer",
                             summary |-> <<>>,
                             context |-> Context(r.out)]>>])))

\* answer_with_ai with a bug: a failure of the selection request ends the
\* question, its message is returned as the answer and no answer request is
\* sent.
answer_with_ai_abort(docs, sel, ans) ==
    Bind(Summary(docs), LAMBDA summary :
        IF ~summary.ok THEN Raise
        ELSE Bind(Selection(docs, sel), LAMBDA r :
            IF ~sel.ok
            THEN Ok([answer |-> s_ErrorGenerating \o sel.text,
                     relevant_docs |-> r.out,
                     warned |-> FALSE,
                     calls |-> <<[request |-> "selection",
                                  summary |-> summary.out,
                                  context |-> Context(<<>>)]>>])
            ELSE Ok([answer |-> IF ans.ok THEN ans.text
                                ELSE s_ErrorGenerating \o ans.text,
                     relevant_docs |-> r.out,
                     warned |-> ~r.ok,
                     calls |-> <<[request |-> "selection",
                                  summary |-> summary.out,
                                  context |-> Context(<<>>)],
                                 [request |-> "answer",
                                  summary |-> <<>>,
                                  context |-> Context(r.out)]>>])))

\* answer_with_ai(question, client), given the replies sel and ans of the
\* service to the two requests: the tuple returned, the warning shown and
\* the requests sent, or the exception of the summary.
answer_with_ai(docs, sel, ans) ==
    Bind(Summary(docs), LAMBDA summary :
        IF ~summary.ok THEN Raise
        ELSE Bind(Selection(docs, sel), LAMBDA r :
            Ok([answer |-> IF ans.ok THEN ans.text
                           ELSE s_ErrorGenerating \o ans.text,
                relevant_docs |-> r.out,
                warned |-> ~r.ok,
                calls |-> <<[request |-> "selection",
                             summary |-> summary.out,
                             context |-> Context(<<>>)],
                            [request |-> "answer",
                             summary |-> <<>>,
                             context |-> Context(r.out)]>>])))
\* ------------------------------------------------------ the files on disk

\* A file of a directory: its stem, whether json.load succeeds on it, and
\* the value json.load returns.
File(stem, content) ==
    [stem |-> stem, ok |-> TRUE, content |-> content]

BadFile(stem) ==
    [stem |-> stem, ok |-> FALSE, content |-> JNull]

\* The condition of the licence-conditions example.
FundCondition ==
    JObj(<<KV(k_condition_id, JStr(v_111)),
           KV(k_condition_title, JStr(v_FundProtection)),
           KV(k_condition_text, JStr(v_OperatorsText))>>)

\* {"sections": [{"conditions": [FundCondition]}]}
LccpNested ==
    JObj(<<KV(k_sections, JArr(<<
        JObj(<<KV(k_conditions, JArr(<<FundCondition>>))>>)>>))>>)

\* {"conditions": [FundCondition]}: the condition sequence at top level.
LccpFlat ==
    JObj(<<KV(k_conditions, JArr(<<FundCondition>>))>>)

\* A section whose conditions lack a title or both fields, and a section
\* that holds its entries under subsections and provisions.
LccpMixed ==
    JObj(<<KV(k_sections, JArr(<<
        JObj(<<KV(k_conditions, JArr(<<
            JObj(<<KV(k_condition_text, JStr(v_fund))>>),
            JObj(<<KV(k_condition_id, JStr(v_21))>>)>>))>>),
        JObj(<<KV(k_subsections, JArr(<<
            JObj(<<KV(k_provisions, JArr(<<
                JObj(<<KV(k_provision_id, JStr(v_31)),
                       KV(k_provision_title, JStr(v_Fund))>>)>>))>>)>>))>>)
        >>))>>)

\* A document of BigSections sections of BigPerSection conditions each.
BigCondition(i) ==
    JObj(<<KV(k_condition_id, JStr(<<"b">> \o NatToStr(i)))>>)

LccpBig ==
    JObj(<<KV(k_document_overview, JStr(v_fund)),
           KV(k_sections, JArr([s \in 1..BigSections |->
               JObj(<<KV(k_conditions, JArr([c \in 1..BigPerSection |->
                   BigCondition((s - 1) * BigPerSection + c)]))>>)]))>>)

\* {"document_overview": "fund", "sections": [7]}: a section that is no
\* object.
LccpBadSections ==
    JObj(<<KV(k_document_overview, JStr(v_fund)),
           KV(k_sections, JArr(<<JNum(7)>>))>>)

\* {"control": "fund"}: a control that is no object.
IsoBadControl ==
    JObj(<<KV(k_control, JStr(v_fund))>>)

\* ["fund"]: a document whose top-level value is a list.
RtsList ==
    JArr(<<JStr(v_fund)>>)

IsoControl ==
    JObj(<<KV(k_control, JObj(<<KV(k_control_id, JStr(v_A5)),
                                KV(k_control_title, JStr(v_FundPolicy)),
                                KV(k_control_purpose, JStr(v_FundFund))>>))>>)

\* A control without identifier, and identifier and title at top level.
IsoTopLevel ==
    JObj(<<KV(k_control_id, JStr(v_A8)),
           KV(k_title, JStr(v_Fund)),
           KV(k_control, JObj(<<KV(k_control_title, JStr(v_Access))>>))>>)

RtsAim ==
    JObj(<<KV(k_rts_id, JStr(v_RTS12id)),
           KV(k_aim, JObj(<<KV(k_aim_number, JNum(12)),
                            KV(k_aim_title, JStr(v_FundDisplay))>>))>>)

\* An aim without aim_number.
RtsNoNumber ==
    JObj(<<KV(k_aim, JObj(<<KV(k_aim_title, JStr(v_Funds))>>))>>)

\* An empty aim.
RtsEmptyAim ==
    JObj(<<KV(k_title, JStr(v_fund)), KV(k_aim, JObj(<<>>))>>)

\* {"rts_id": "RTS-12", "title": "zzz"}: a document without "aim".
RtsNoAim ==
    JObj(<<KV(k_rts_id, JStr(v_RTS12id)), KV(k_title, JStr(v_zzz))>>)

XrefMapping ==
    JObj(<<KV(k_xref_groups, JArr(<<
        JObj(<<KV(k_mappings, JArr(<<
            JObj(<<KV(k_lccp_id, JStr(v_111)),
                   KV(k_lccp_title, JStr(v_FundProtection)),
                   KV(k_supporting_iso, JArr(<<JStr(v_A5)>>)),
                   KV(k_supporting_rts, JArr(<<JStr(v_RTS_Aim_12)>>))>>),
            JObj(<<KV(k_lccp_id, JStr(v_21))>>)>>))>>)>>))>>)

\* A cross-reference index without mapping groups.
XrefEmpty ==
    JObj(<<>>)

UrlEntry(url) ==
    JObj(<<KV(k_url, JStr(url))>>)

\* {"mappings": {"RTS_12": {"url": ...}, "RTS_07": {"title": ...}, ...}}
UrlMappingFull ==
    JObj(<<KV(k_mappings, JObj(<<
        KV(v_RTS_12, UrlEntry(v_url12)),
        KV(v_RTS_07, JObj(<<KV(k_title, JStr(v_Aim))>>)),
        KV(v_RTS_7, UrlEntry(v_url7)),
        KV(v_LCCP_111, UrlEntry(v_url111)),
        KV(v_Aim, UrlEntry(v_urlAim))>>))>>)

\* A URL mapping with the padded and the unpadded key of one aim.
UrlMappingPadded ==
    JObj(<<KV(k_mappings, JObj(<<
        KV(v_RTS_7, UrlEntry(v_url7)),
        KV(v_RTS_07, UrlEntry(v_url07))>>))>>)

\* The URL mapping of the example: {"mappings": {"RTS_12": {"url": ...}}}.
UrlMappingExample ==
    JObj(<<KV(k_mappings, JObj(<<KV(v_RTS_12, UrlEntry(v_url12))>>))>>)

\* A URL mapping file without "mappings".
UrlMappingEmpty ==
    JObj(<<KV(k_title, JStr(v_Aim))>>)

Dirs ==
    <<"lccp", "iso27001", "rts", "indexes">>

\* The files a directory may hold.
Pool(d) ==
    CASE d = "lccp" ->
           {File(v_l1, LccpNested), File(v_l2, LccpFlat),
            File(v_l3, LccpMixed), BadFile(v_lbad)}
      [] d = "iso27001" ->
           {File(v_i1, IsoControl), File(v_i2, IsoTopLevel),
            BadFile(v_ibad)}
      [] d = "rts" ->
           {File(v_r1, RtsAim), File(v_r2, RtsNoNumber),
            File(v_r3, RtsEmptyAim)}
      [] OTHER ->
           {File(s_XrefName, XrefMapping), File(s_XrefName, XrefEmpty),
            BadFile(s_XrefName)}

\* The listings of k files of a directory, in the order path.glob yields
\* them: files of different names.
Listings(d, k) ==
    {fs \in [1..k -> Pool(d)] :
        \A i, j \in 1..k : i # j => fs[i].stem # fs[j].stem}

\* url_mapping.json as load_url_mapping finds it: absent, or a file.
UrlFiles ==
    {File(v_url_mapping, UrlMappingFull), File(v_url_mapping, UrlMappingExample),
     File(v_url_mapping, UrlMappingPadded),
     File(v_url_mapping, UrlMappingEmpty), BadFile(v_url_mapping)}

\* A directory of BulkFiles documents, each matching "fund" one to three
\* times.
BulkDoc(i) ==
    JObj(<<KV(k_provision_id, JStr(<<"p">> \o NatToStr(i))),
           KV(k_text, JArr([j \in 1..(1 + (i % 3)) |-> JStr(v_fund)]))>>)

BulkListing ==
    [i \in 1..BulkFiles |-> File(<<"d">> \o NatToStr(i), BulkDoc(i))]

\* The numbers of files of the four directories and of url_mapping.json.
FileCounts ==
    {c \in [1..5 -> 0..MaxFiles] :
        c[1] + c[2] + c[3] + c[4] + c[5] <= MaxFiles /\ c[5] <= 1}

\* The file systems of the model: every choice of at most MaxFiles files,
\* the directory of BulkFiles documents, the large licence-conditions
\* document beside a small one, and the documents of malformed structure,
\* alone and beside a well-formed one.
FileSystems ==
    UNION {{[lccp |-> l, iso27001 |-> i, rts |-> r, indexes |-> x, url |-> u] :
               l \in Listings("lccp", c[1]), i \in Listings("iso27001", c[2]),
               r \in Listings("rts", c[3]), x \in Listings("indexes", c[4]),
               u \in IF c[5] = 0 THEN {<<>>} ELSE {<<f>> : f \in UrlFiles}} :
           c \in FileCounts}
    \cup {[lccp |-> BulkListing, iso27001 |-> <<File(v_i1, IsoControl)>>,
           rts |-> <<>>, indexes |-> <<>>, url |-> <<>>],
          [lccp |-> <<File(v_l4, LccpBig), File(v_l1, LccpNested)>>,
           iso27001 |-> <<>>,
           rts |-> <<File(v_r1, RtsAim), File(v_r5, RtsNoAim)>>,
           indexes |-> <<>>, url |-> <<>>],
          [lccp |-> <<File(v_l5, LccpBadSections)>>,
           iso27001 |-> <<File(v_i3, IsoBadControl)>>,
           rts |-> <<File(v_r4, RtsList)>>,
           indexes |-> <<>>, url |-> <<>>],
          [lccp |-> <<File(v_l1, LccpNested), File(v_l5, LccpBadSections)>>,
           iso27001 |-> <<>>, rts |-> <<>>, indexes |-> <<>>, url |-> <<>>]}

DirFiles(f, d) ==
    CASE d = "lccp" -> f.lccp
      [] d = "iso27001" -> f.iso27001
      [] d = "rts" -> f.rts
      [] OTHER -> f.indexes

\* ---------------------------------------------------------------- state

VARIABLES
    program,      \* "app" (streamlit_app.py) or "server" (the MCP server)
    files,        \* the files on disk, never written by the program
    pc,           \* "load", "url", "ready" or "returned"
    dir,          \* load_documents: the directory being read, 1..4, then 5
    pos,          \* load_documents: the files of that directory already read
    documents,    \* the document store
    warnings,     \* the files reported by st.warning / print
    url_mapping,  \* st.session_state.url_mapping (None is JNull)
    ret           \* the operation that returned last, with its result

vars ==
    <<program, files, pc, dir, pos, documents, warnings, url_mapping, ret>>

NoRet ==
    [op |-> "none", a1 |-> <<>>, a2 |-> <<>>, ok |-> TRUE, out |-> <<>>]

EmptyStore ==
    [lccp |-> <<>>, iso27001 |-> <<>>, rts |-> <<>>, indexes |-> <<>>]

Queries ==
    {v_fund, v_Fund, v_fund_protection, v_zz, <<>>}

\* The framework argument: None, a framework, another key of the store, and
\* a string that is no key.
Filters ==
    {JNull, JStr(s_lccp), JStr(s_iso27001), JStr(s_rts), JStr(s_indexes),
     JStr(s_bogus)}

UrlArgs ==
    {<<s_RTS, v_RTS_Aim_12>>, <<v_rts_lower, v_RTS_Aim_7>>,
     <<v_R_T_S, v_RTS_12>>, <<s_RTS, v_Aim>>, <<s_LCCP, v_111>>,
     <<s_lccp, v_21>>, <<v_ISO, v_Aim>>}

\* The "data" of the documents build_framework_context is called with.
LccpData ==
    {LccpNested, LccpFlat, LccpMixed, LccpBadSections}

\* The titles the labels are written with.
Titles ==
    {v_FundProtection}

\* The replies of the external service to a request: a text, or a failure
\* with its message.
SelectionReplies ==
    {[ok |-> TRUE, text |-> v_sel_lccp], [ok |-> TRUE, text |-> v_sel_two],
     [ok |-> TRUE, text |-> v_zz], [ok |-> FALSE, text |-> v_timeout]}

AnswerReplies ==
    {[ok |-> TRUE, text |-> v_answer], [ok |-> FALSE, text |-> v_timeout]}

XrefArgs ==
    {<<v_111, s_lccp>>, <<v_21, s_lccp>>, <<v_99, s_lccp>>, <<v_111, s_rts>>,
     <<v_A5, s_iso27001>>, <<v_RTS_Aim_12, s_rts>>}

Init ==
    /\ program \in {"app", "server"}
    /\ files \in FileSystems
    /\ program = "server" => files.url = <<>>
    /\ pc = "load"
    /\ dir = 1
    /\ pos = 0
    /\ documents = EmptyStore
    /\ warnings = <<>>
    /\ url_mapping = JNull
    /\ ret = NoRet

\* ------------------------------------------------------------------ load

\* documents[framework].append({"filename": file.name, "content": doc}), or
\* documents["indexes"][file.stem] = doc.
Stored(docs, d, f) ==
    CASE d = "lccp" ->
           [docs EXCEPT !.lccp = Append(@, [filename |-> f.stem \o s_json,
                                            content |-> f.content])]
      [] d = "iso27001" ->
           [docs EXCEPT !.iso27001 = Append(@, [filename |-> f.stem \o s_json,
                                                content |-> f.content])]
      [] d = "rts" ->
           [docs EXCEPT !.rts = Append(@, [filename |-> f.stem \o s_json,
                                           content |-> f.content])]
      [] OTHER ->
           [docs EXCEPT !.indexes = Append(@, [name |-> f.stem,
                                               content |-> f.content])]

\* One iteration of a glob loop of load_documents whose json.load succeeds.
LoadOk ==
    /\ pc = "load"
    /\ dir <= Len(Dirs)
    /\ pos < Len(DirFiles(files, Dirs[dir]))
    /\ LET f == DirFiles(files, Dirs[dir])[pos + 1]
       IN  /\ f.ok
           /\ documents' = Stored(documents, Dirs[dir], f)
    /\ pos' = pos + 1
    /\ UNCHANGED <<program, files, pc, dir, warnings, url_mapping, ret>>

\* LoadFail with a bug: the exception leaves load_documents, and the files
\* and directories behind the malformed file are not read.
LoadFailAbort ==
    /\ pc = "load"
    /\ dir <= Len(Dirs)
    /\ pos < Len(DirFiles(files, Dirs[dir]))
    /\ LET f == DirFiles(files, Dirs[dir])[pos + 1]
       IN  /\ ~f.ok
           /\ warnings' = Append(warnings, f.stem \o s_json)
    /\ dir' = Len(Dirs) + 1
    /\ pos' = 0
    /\ pc' = IF program = "app" THEN "url" ELSE "ready"
    /\ UNCHANGED <<program, files, documents, url_mapping, ret>>

\* One iteration whose open or json.load raises: the except clause of the
\* loop body reports the file and the loop goes on.
LoadFail ==
    /\ pc = "load"
    /\ dir <= Len(Dirs)
    /\ pos < Len(DirFiles(files, Dirs[dir]))
    /\ LET f == DirFiles(files, Dirs[dir])[pos + 1]
       IN  /\ ~f.ok
           /\ warnings' = Append(warnings, f.stem \o s_json)
    /\ pos' = pos + 1
    /\ UNCHANGED <<program, files, pc, dir, documents, url_mapping, ret>>

\* The end of a glob loop: the next directory, or the end of load_documents.
NextDir ==
    /\ pc = "load"
    /\ dir <= Len(Dirs)
    /\ pos = Len(DirFiles(files, Dirs[dir]))
    /\ dir' = dir + 1
    /\ pos' = 0
    /\ pc' = IF dir < Len(Dirs) THEN "load"
             ELSE IF program = "app" THEN "url" ELSE "ready"
    /\ UNCHANGED <<program, files, documents, warnings, url_mapping, ret>>

\* load_url_mapping: the parsed file, or None with a warning.
LoadUrlMapping ==
    /\ pc = "url"
    /\ IF files.url # <<>> /\ files.url[1].ok
       THEN /\ url_mapping' = files.url[1].content
            /\ UNCHANGED warnings
       ELSE /\ url_mapping' = JNull
            /\ warnings' = Append(warnings, v_url_mapping \o s_json)
    /\ pc' = "ready"
    /\ UNCHANGED <<program, files, dir, pos, documents, ret>>

\* ------------------------------------------------------------ operations

Returned(op, a1, a2, r) ==
    /\ ret' = [op |-> op, a1 |-> a1, a2 |-> a2, ok |-> r.ok, out |-> r.out]
    /\ pc' = "returned"
    /\ UNCHANGED <<program, files, dir, pos, warnings>>

\* SearchDocuments with a bug: the documents of the store are sorted in
\* place, here reversed, while they are searched.
SearchDocumentsInPlace ==
    /\ pc = "ready"
    /\ program = "app"
    /\ \E q \in Queries, f \in Filters :
         Returned("search", q, f, search_documents(documents, q, f))
    /\ documents' = [documents EXCEPT !.lccp =
                        [i \in 1..Len(@) |-> @[Len(@) + 1 - i]]]
    /\ UNCHANGED url_mapping

\* The Keyword Search tab: search_documents(query, framework).
SearchDocuments ==
    /\ pc = "ready"
    /\ program = "app"
    /\ \E q \in Queries, f \in Filters :
         Returned("search", q, f, search_documents(documents, q, f))
    /\ UNCHANGED <<documents, url_mapping>>

\* The search_regulations tool: search_documents(query, framework).
ServerSearchDocuments ==
    /\ pc = "ready"
    /\ program = "server"
    /\ \E q \in Queries, f \in Filters :
         Returned("search", q, f, server_search_documents(documents, q, f))
    /\ UNCHANGED <<documents, url_mapping>>

\* The get_cross_reference_mapping tool: get_cross_references.
GetCrossReferences ==
    /\ pc = "ready"
    /\ program = "server"
    /\ \E a \in XrefArgs :
         Returned("xref", a[1], a[2], get_cross_references(documents, a[1], a[2]))
    /\ UNCHANGED <<documents, url_mapping>>

\* get_regulation_url(framework, regulation_id)
GetRegulationUrl ==
    /\ pc = "ready"
    /\ program = "app"
    /\ \E a \in UrlArgs :
         Returned("url", a[1], a[2], get_regulation_url(url_mapping, a[1], a[2]))
    /\ UNCHANGED <<documents, url_mapping>>

\* The Browse tab: the field extraction of one stored document.
ExtractDocumentIds ==
    /\ pc = "ready"
    /\ program = "app"
    /\ \/ \E i \in 1..Len(documents.lccp) :
            Returned("extract", s_lccp, i,
                     extract_document_ids_from_lccp(documents.lccp[i].content))
       \/ \E i \in 1..Len(documents.rts) :
            Returned("extract", s_rts, i,
                     extract_document_ids_from_rts(documents.rts[i].content))
    /\ UNCHANGED <<documents, url_mapping>>

\* The Ask tab: answer_with_ai(question, client).
AnswerWithAi ==
    /\ pc = "ready"
    /\ program = "app"
    /\ \E sel \in SelectionReplies, ans \in AnswerReplies :
         Returned("answer", sel, ans, answer_with_ai(documents, sel, ans))
    /\ UNCHANGED <<documents, url_mapping>>

\* format_regulation_with_link(framework, doc_id, title), as the pages call
\* it for each regulation they list.
FormatRegulationWithLink ==
    /\ pc = "ready"
    /\ program = "app"
    /\ \E a \in UrlArgs, t \in Titles :
         Returned("link", a[1], <<a[2], t>>,
                  format_regulation_with_link(url_mapping, a[1], a[2], t))
    /\ UNCHANGED <<documents, url_mapping>>

\* build_framework_context(documents) over a store that holds one
\* licence-conditions document.
BuildFrameworkContext ==
    /\ pc = "ready"
    /\ program = "app"
    /\ \E c \in LccpData :
         Returned("context", c, JNull, build_framework_context(c))
    /\ UNCHANGED <<documents, url_mapping>>

\* The caller takes the result: the script run or the tool call ends.
Done ==
    /\ pc = "returned"
    /\ pc' = "ready"
    /\ ret' = NoRet
    /\ UNCHANGED <<program, files, dir, pos, documents, warnings, url_mapping>>

Next ==
    \/ LoadOk
    \/ LoadFail
    \/ NextDir
    \/ LoadUrlMapping
    \/ SearchDocuments
    \/ ServerSearchDocuments
    \/ GetCrossReferences
    \/ GetRegulationUrl
    \/ ExtractDocumentIds
    \/ AnswerWithAi
    \/ FormatRegulationWithLink
    \/ BuildFrameworkContext
    \/ Done

Spec ==
    Init /\ [][Next]_vars


\* ------------------------------------------------------------ properties

\* The list of matches of the search that returned, before it is sorted.
Matches ==
    IF program = "app" THEN AppMatches(documents, ret.a1, ret.a2)
    ELSE ServerMatches(documents, ret.a1, ret.a2)

\* The relevance score of a result.
Score(r) ==
    IF program = "app" THEN r.relevance ELSE r.relevance_score

SearchReturned ==
    ret.op = "search" /\ ret.ok

\* C1: search_documents returns a list of at most 20 results, for every
\* query, framework filter and store.
C1_AtMostTwenty ==
    SearchReturned => Len(ret.out) <= MaxResults

\* A search with more than 20 matches has returned 20 results.
C1_Witness ==
    /\ SearchReturned
    /\ Len(ret.out) = MaxResults
    /\ Len(Matches.out) > MaxResults

\* The place of a result in the encounter order: its framework in the order
\* lccp, iso27001, rts, then its document in store order.
FrameworkPlace(fw) ==
    CHOOSE i \in 1..Len(FrameworkNames) : FrameworkNames[i] = fw

DocumentPlace(r) ==
    CHOOSE i \in 1..Len(StoreAt(documents, r.framework)) :
        StoreAt(documents, r.framework)[i].filename = r.filename

Before(r1, r2) ==
    \/ FrameworkPlace(r1.framework) < FrameworkPlace(r2.framework)
    \/ /\ r1.framework = r2.framework
       /\ DocumentPlace(r1) <= DocumentPlace(r2)

\* The rank of the match at position p in "descending score, ties in
\* encounter order".
Rank(m, p) ==
    1 + Cardinality({q \in 1..Len(m) :
                        \/ Score(m[q]) > Score(m[p])
                        \/ Score(m[q]) = Score(m[p]) /\ q < p})

\* C2: the list returned by search_documents is sorted by descending score,
\* results of equal score keep their encounter order (framework, document,
\* extracted entry), and the results returned are the first 20 of that
\* ordering of all matches.
C2_SortedStableTop ==
    SearchReturned =>
        LET m == Matches.out
        IN  /\ Len(ret.out) = (IF Len(m) < MaxResults THEN Len(m)
                               ELSE MaxResults)
            /\ \A p \in 1..Len(m) :
                 Rank(m, p) <= MaxResults => ret.out[Rank(m, p)] = m[p]
            /\ \A i, j \in 1..Len(ret.out) :
                 i < j => \/ Score(ret.out[i]) > Score(ret.out[j])
                          \/ /\ Score(ret.out[i]) = Score(ret.out[j])
                             /\ Before(ret.out[i], ret.out[j])

\* A search has returned results of different scores and results of equal
\* score, in another order than the matches were met, and cut to 20.
C2_Witness ==
    /\ SearchReturned
    /\ Len(Matches.out) > MaxResults
    /\ ret.out # SubSeq(Matches.out, 1, Len(ret.out))
    /\ \E i, j \in 1..Len(ret.out) :
         i < j /\ Score(ret.out[i]) = Score(ret.out[j])
    /\ \E i, j \in 1..Len(ret.out) :
         Score(ret.out[i]) > Score(ret.out[j])

\* The value of key in v when v is an object whose value is a list, and the
\* empty list otherwise.
ListAt(v, key) ==
    IF v.t = "obj" /\ HasKey(v, key) /\ Lookup(v, key).t = "arr"
    THEN Items(Lookup(v, key)) ELSE <<>>

\* The entries of a licence-conditions document on the three paths of the
\* data model: the conditions at top level, the conditions of the sections
\* and the provisions of the subsections of the sections.
LccpEntries(content) ==
    LET secs == ListAt(content, k_sections)
        subs == Flatten([i \in 1..Len(secs) |-> ListAt(secs[i], k_subsections)])
    IN  ListAt(content, k_conditions)
        \o Flatten([i \in 1..Len(secs) |-> ListAt(secs[i], k_conditions)])
        \o Flatten([i \in 1..Len(subs) |-> ListAt(subs[i], k_provisions)])

\* The (identifier, title) of the entries of a document that hold both.
Identified(fw, content) ==
    CASE fw = s_lccp ->
           LET es == LccpEntries(content)
           IN  {[id |-> PyOr(Get(es[i], k_condition_id, JNull),
                             Get(es[i], k_provision_id, JNull)),
                 title |-> PyOr(Get(es[i], k_condition_title, JNull),
                                Get(es[i], k_provision_title, JNull))] :
                  i \in 1..Len(es)}
      [] fw = s_iso27001 ->
           LET c == Get(content, k_control, JObj(<<>>))
           IN  {[id |-> Get(c, k_control_id, JNull),
                 title |-> Get(c, k_control_title, JNull)]}
      [] OTHER ->
           LET a == Get(content, k_aim, JObj(<<>>))
           IN  {[id |-> Get(a, k_aim_number, JNull),
                 title |-> Get(a, k_aim_title, JNull)]}

\* The document has an entry with an identifier and a title that contains q.
TitleContains(fw, content, q) ==
    \E e \in Identified(fw, content) :
        /\ Truthy(e.id)
        /\ e.title.t = "str"
        /\ Contains(e.title.s, q)

\* C3: for every store and every non-empty query, a document that has an
\* identifier and whose title contains the query is present in the results
\* of the search when no framework filter excludes it.
C3_RoundTrip ==
    (ret.op = "search" /\ ret.a2 = JNull) =>
        \A f \in 1..Len(FrameworkNames) :
          \A i \in 1..Len(StoreAt(documents, FrameworkNames[f])) :
            LET doc == StoreAt(documents, FrameworkNames[f])[i]
            IN  TitleContains(FrameworkNames[f], doc.content, ret.a1) =>
                  /\ ret.ok
                  /\ \E k \in 1..Len(ret.out) :
                       /\ ret.out[k].framework = FrameworkNames[f]
                       /\ ret.out[k].filename = doc.filename

\* The scan of get_cross_references finds no entry of the identifier.
NoEntry(mapping, provision_id) ==
    LET groups == ListAt(mapping, k_xref_groups)
    IN  \A g \in 1..Len(groups) :
          \A p \in 1..Len(ListAt(groups[g], k_mappings)) :
            Get(ListAt(groups[g], k_mappings)[p], k_lccp_id, JNull)
                # JStr(provision_id)

MappingUnavailable ==
    JObj(<<KV(k_error, JStr(s_NotLoaded))>>)

IdentifierNotFound(provision_id, framework) ==
    JObj(<<KV(k_error, JStr(s_Provision_ \o provision_id \o s_not_found_in
                            \o framework))>>)

\* C4: get_cross_references returns the "mapping unavailable" outcome
\* whenever the cross-reference index was not loaded, the "identifier not
\* found" outcome when the index is loaded and holds no entry of the
\* identifier; the two outcomes differ and neither is an exception.
C4_TwoOutcomes ==
    ret.op = "xref" =>
        /\ ~IndexLoaded(documents, s_XrefName) =>
             ret.ok /\ ret.out = MappingUnavailable
        /\ (/\ IndexLoaded(documents, s_XrefName)
            /\ NoEntry(IndexAt(documents, s_XrefName), ret.a1)) =>
             ret.ok /\ ret.out = IdentifierNotFound(ret.a1, ret.a2)
        /\ MappingUnavailable # IdentifierNotFound(ret.a1, ret.a2)

\* The lookup of an identifier that the loaded index, which holds entries,
\* does not hold has returned "identifier not found".
C4_Witness ==
    /\ ret.op = "xref"
    /\ IndexLoaded(documents, s_XrefName)
    /\ IndexAt(documents, s_XrefName) = XrefMapping
    /\ ret.a1 = v_99
    /\ ret.out = IdentifierNotFound(v_99, s_lccp)

\* The files of a listing that json.load accepts, as the store holds them.
Kept(listing) ==
    LET ok == SelectSeq(listing, LAMBDA f : f.ok)
    IN  [i \in 1..Len(ok) |-> [filename |-> ok[i].stem \o s_json,
                               content |-> ok[i].content]]

KeptIndexes(listing) ==
    LET ok == SelectSeq(listing, LAMBDA f : f.ok)
    IN  [i \in 1..Len(ok) |-> [name |-> ok[i].stem, content |-> ok[i].content]]

\* The names of the files of a listing that json.load rejects.
Rejected(listing) ==
    LET bad == SelectSeq(listing, LAMBDA f : ~f.ok)
    IN  [i \in 1..Len(bad) |-> bad[i].stem \o s_json]

AllRejected ==
    Rejected(files.lccp) \o Rejected(files.iso27001) \o Rejected(files.rts)
    \o Rejected(files.indexes)

\* C5: after load_documents the store holds exactly the well-formed files of
\* every directory, in load order, and every malformed file has been
\* reported, wherever the malformed files stand in the load order.
C5_MalformedExcluded ==
    pc # "load" =>
        /\ documents.lccp = Kept(files.lccp)
        /\ documents.iso27001 = Kept(files.iso27001)
        /\ documents.rts = Kept(files.rts)
        /\ documents.indexes = KeptIndexes(files.indexes)
        /\ Len(warnings) >= Len(AllRejected)
        /\ SubSeq(warnings, 1, Len(AllRejected)) = AllRejected

\* The load has ended with a malformed file read before a well-formed file
\* of the same directory, which is in the store.
C5_Witness ==
    /\ pc = "ready"
    /\ Len(files.lccp) = 2
    /\ ~files.lccp[1].ok
    /\ files.lccp[2].ok
    /\ Len(documents.lccp) = 1
    /\ warnings # <<>>

\* C7: with a store that holds nothing but a licence-conditions document
\* with the condition 1.1.1 "Fund Protection", search("fund protection")
\* returns a result with id "1.1.1", framework lccp and a score of at least 1.
C7_FundProtectionFound ==
    (/\ ret.op = "search"
     /\ ret.a1 = v_fund_protection
     /\ ret.a2 = JNull
     /\ documents.iso27001 = <<>>
     /\ documents.rts = <<>>
     /\ documents.indexes = <<>>
     /\ Len(documents.lccp) = 1
     /\ documents.lccp[1].content \in {LccpNested, LccpFlat}) =>
        /\ ret.ok
        /\ \E k \in 1..Len(ret.out) :
             /\ ret.out[k].id = JStr(v_111)
             /\ ret.out[k].framework = s_lccp
             /\ Score(ret.out[k]) >= 1

\* The entry of the URL mapping under RTS_<n zero-padded to two digits>, for
\* the first run of digits n of the identifier.
PaddedEntry(regulation_id) ==
    Get(Get(url_mapping, k_mappings, JObj(<<>>)),
        s_RTS \o <<"_">> \o Zfill2(FirstDigits(regulation_id)), JNull)

\* C8: with the URL mapping {"RTS_12": {"url": "https://example.org/rts12"}},
\* get_regulation_url("RTS", "RTS Aim 12") returns that url; for framework
\* RTS, an identifier whose first run of digits is n resolves to the url
\* stored under RTS_<n zero-padded to two digits> when the mapping holds it.
C8_RtsPadded ==
    (ret.op = "url" /\ url_mapping # JNull) =>
        /\ (/\ url_mapping = UrlMappingExample
            /\ ret.a1 = s_RTS
            /\ ret.a2 = v_RTS_Aim_12) =>
             ret.ok /\ ret.out = JStr(v_url12)
        /\ (/\ NormalizeFramework(ret.a1) = s_RTS
            /\ FirstDigits(ret.a2) # <<>>
            /\ PaddedEntry(ret.a2).t = "obj"
            /\ Truthy(Get(PaddedEntry(ret.a2), k_url, JNull))) =>
             ret.ok /\ ret.out = Get(PaddedEntry(ret.a2), k_url, JNull)

\* The lookup of "RTS Aim 7" has returned the url of RTS_07 from a mapping
\* that holds RTS_7 as well.
C8_Witness ==
    /\ ret.op = "url"
    /\ url_mapping = UrlMappingPadded
    /\ ret.a2 = v_RTS_Aim_7
    /\ ret.out = JStr(v_url07)

\* The document the field extraction that returned was applied to.
Extracted ==
    StoreAt(documents, ret.a1)[ret.a2].content

\* The entries on the path the extractor scans: the conditions of the
\* sections of a licence-conditions document, the aim of an RTS document.
ScannedEntries(fw, content) ==
    IF fw = s_lccp
    THEN LET secs == ListAt(content, k_sections)
         IN  Flatten([i \in 1..Len(secs) |-> ListAt(secs[i], k_conditions)])
    ELSE IF Truthy(Get(content, k_aim, JObj(<<>>)))
    THEN <<Get(content, k_aim, JObj(<<>>))>>
    ELSE <<>>

\* The entry holds an identifier and a title.
Complete(fw, e) ==
    IF fw = s_lccp
    THEN HasKey(e, k_condition_id) /\ HasKey(e, k_condition_title)
    ELSE HasKey(e, k_aim_number) /\ HasKey(e, k_aim_title)

\* The pair the extractor returns for an entry, with its placeholders.
PairOf(fw, e) ==
    IF fw = s_lccp
    THEN [id |-> IF HasKey(e, k_condition_id) THEN Lookup(e, k_condition_id)
                 ELSE JStr(s_Unknown),
          title |-> IF HasKey(e, k_condition_title)
                    THEN Lookup(e, k_condition_title) ELSE JStr(s_Untitled)]
    ELSE [id |-> JStr(s_RTS_Aim_ \o
                      (IF HasKey(e, k_aim_number)
                       THEN PyStr(Lookup(e, k_aim_number)) ELSE s_Unknown)),
          title |-> IF HasKey(e, k_aim_title) THEN Lookup(e, k_aim_title)
                    ELSE JStr(s_Untitled)]

C10_StoreFrozen ==
    [][pc # "load" => documents' = documents]_vars

\* An AI answer that selected documents has returned, over a store that
\* holds two licence-conditions documents.
C10_Witness ==
    /\ ret.op = "answer"
    /\ ret.ok
    /\ ret.out.relevant_docs # <<>>
    /\ Len(documents.lccp) = 2

\* C11: field extraction and search never raise on a document whose nested
\* structure is missing or malformed: the document contributes nothing and
\* the other documents are still processed.
C11_NeverRaises ==
    (/\ program = "app"
     /\ \/ ret.op = "extract"
        \/ ret.op = "search" /\ ret.a2 # JStr(s_indexes)) =>
        ret.ok

\* The provisions of the index, over all mapping groups.
Provisions(mapping) ==
    LET groups == ListAt(mapping, k_xref_groups)
    IN  Flatten([g \in 1..Len(groups) |-> ListAt(groups[g], k_mappings)])

\* The provision records the identifier as an identifier of the framework.
Records(provision, framework, identifier) ==
    \/ /\ framework = s_lccp
       /\ Get(provision, k_lccp_id, JNull) = JStr(identifier)
    \/ /\ framework = s_iso27001
       /\ \E i \in 1..Len(ListAt(provision, k_supporting_iso)) :
            ListAt(provision, k_supporting_iso)[i] = JStr(identifier)
    \/ /\ framework = s_rts
       /\ \E i \in 1..Len(ListAt(provision, k_supporting_rts)) :
            ListAt(provision, k_supporting_rts)[i] = JStr(identifier)

\* C12: with the cross-reference index loaded, get_cross_references answers
\* for each of the three frameworks: an identifier that an entry of the index
\* records under the framework resolves to that entry's related identifiers,
\* and "identifier not found" is returned only when no entry records it.
C12_AnyFramework ==
    (/\ ret.op = "xref"
     /\ IndexLoaded(documents, s_XrefName)
     /\ IndexAt(documents, s_XrefName) = XrefMapping
     /\ \E i \in 1..Len(Provisions(XrefMapping)) :
          Records(Provisions(XrefMapping)[i], ret.a2, ret.a1)) =>
        /\ ret.ok
        /\ ret.out # IdentifierNotFound(ret.a1, ret.a2)

\* The URL mapping of the session holds a non-empty "mappings" object whose
\* entries are objects.
MappingsUsable ==
    /\ url_mapping.t = "obj"
    /\ Get(url_mapping, k_mappings, JNull).t = "obj"
    /\ Get(url_mapping, k_mappings, JNull).kv # <<>>
    /\ \A i \in 1..Len(Get(url_mapping, k_mappings, JNull).kv) :
         Get(url_mapping, k_mappings, JNull).kv[i].v.t = "obj"

\* The key is present in "mappings".
KeyPresent(key) ==
    HasKey(Get(url_mapping, k_mappings, JNull), key)

\* The url stored under the key, None (JNull) when the entry has none.
UrlUnder(key) ==
    Get(Get(Get(url_mapping, k_mappings, JNull), key, JObj(<<>>)), k_url, JNull)

\* The key is present and its entry holds a non-empty url.
KeyHasUrl(key) ==
    KeyPresent(key) /\ Truthy(UrlUnder(key))

\* The candidate keys as the claim lists them: for RTS the two keys built
\* from the digits, where the identifier has digits, and the raw identifier;
\* for any other framework <FRAMEWORK>_<identifier> and the raw identifier.
ClaimedCandidates(framework, regulation_id) ==
    LET fw == NormalizeFramework(framework)
        digits == FirstDigits(regulation_id)
    IN  IF fw = s_RTS
        THEN (IF digits = <<>> THEN <<>>
              ELSE <<s_RTS \o <<"_">> \o Zfill2(digits),
                     s_RTS \o <<"_">> \o digits>>) \o <<regulation_id>>
        ELSE <<fw \o <<"_">> \o regulation_id, regulation_id>>

\* The candidate keys that are tried: those of the claim, but none at all for
\* an RTS identifier without a digit.
TriedCandidates(framework, regulation_id) ==
    IF NormalizeFramework(framework) = s_RTS /\ FirstDigits(regulation_id) = <<>>
    THEN <<>>
    ELSE ClaimedCandidates(framework, regulation_id)

\* C13 as stated: get_regulation_url returns the url of the first candidate
\* key that is present in the URL mapping, and NotFound only when no
\* candidate key is present.
C13_FirstPresent ==
    (ret.op = "url" /\ MappingsUsable) =>
        LET keys == ClaimedCandidates(ret.a1, ret.a2)
            present == {i \in 1..Len(keys) : KeyPresent(keys[i])}
        IN  /\ ret.ok
            /\ present = {} => ret.out = JNull
            /\ present # {} =>
                 /\ ret.out # JNull
                 /\ ret.out = UrlUnder(keys[CHOOSE i \in present :
                                              \A j \in present : i <= j])

\* C13: over a URL mapping whose "mappings" is a non-empty object of
\* objects, get_regulation_url returns the url of the first tried candidate
\* key that is present with a non-empty url, passing over present keys
\* without one, and NotFound when no tried candidate has a url.
C13_FirstWithUrl ==
    (ret.op = "url" /\ MappingsUsable) =>
        LET keys == TriedCandidates(ret.a1, ret.a2)
        IN  /\ ret.ok
            /\ \/ /\ \A i \in 1..Len(keys) : ~KeyHasUrl(keys[i])
                  /\ ret.out = JNull
               \/ \E i \in 1..Len(keys) :
                    /\ KeyHasUrl(keys[i])
                    /\ \A j \in 1..(i - 1) : ~KeyHasUrl(keys[j])
                    /\ ret.out = UrlUnder(keys[i])

\* The lookup of "RTS Aim 7" has passed over RTS_07, present without url, and
\* returned the url of RTS_7.
C13_Witness ==
    /\ ret.op = "url"
    /\ url_mapping = UrlMappingFull
    /\ ret.a2 = v_RTS_Aim_7
    /\ KeyPresent(v_RTS_07)
    /\ ret.out = JStr(v_url7)

\* The URL mapping was never loaded, or holds no "mappings" entry.
NoMappings ==
    \/ url_mapping = JNull
    \/ url_mapping.t = "obj" /\ ~HasKey(url_mapping, k_mappings)

EndsWith(s, t) ==
    /\ Len(t) <= Len(s)
    /\ SubSeq(s, Len(s) - Len(t) + 1, Len(s)) = t

\* "<framework> <identifier>: <title>" of the label that returned.
LabelText ==
    ret.a1 \o <<" ">> \o ret.a2[1] \o <<":", " ">> \o ret.a2[2]

\* The text is a label without a link.
PlainLabel(text) ==
    /\ EndsWith(text, LabelText)
    /\ ~Contains(text, <<"]", "(">>)
    /\ ~Contains(text, <<"h", "t", "t", "p">>)

\* The text is a markdown link with the label as its text and url as its
\* target.
LinkTo(text, url) ==
    EndsWith(text, <<"[">> \o LabelText \o <<"]", "(">> \o url \o <<")">>)

\* C14: when no url can be resolved, in particular when the URL mapping was
\* never loaded or has no "mappings" entry, get_regulation_url returns None
\* and format_regulation_with_link a plain label, neither raising; when a url
\* is resolved the label is a link to exactly that url.
C14_PlainOrLink ==
    /\ (ret.op = "url" /\ NoMappings) => ret.ok /\ ret.out = JNull
    /\ ret.op = "link" =>
         LET url == get_regulation_url(url_mapping, ret.a1, ret.a2[1])
         IN  /\ NoMappings => url = Ok(JNull)
             /\ url = Ok(JNull) => ret.ok /\ PlainLabel(ret.out)
             /\ (url.ok /\ url.out.t = "str" /\ url.out.s # <<>>) =>
                  ret.ok /\ LinkTo(ret.out, url.out.s)

\* A label was written, plain, while the URL mapping file had no "mappings"
\* entry.
C14_Witness ==
    /\ ret.op = "link"
    /\ url_mapping = UrlMappingEmpty
    /\ ret.ok
    /\ PlainLabel(ret.out)

\* The kinds of the requests that were sent to the service, in order.
Requests ==
    [i \in 1..Len(ret.out.calls) |-> ret.out.calls[i].request]

StartsWith(s, t) ==
    Len(t) <= Len(s) /\ SubSeq(s, 1, Len(t)) = t

\* One of the two requests of the execution that returned has failed.
ServiceFailed ==
    /\ ret.op = "answer"
    /\ Summary(documents).ok
    /\ ~ret.a1.ok \/ ~ret.a2.ok

\* C16 as stated: a failure of the external service during answer_with_ai
\* does not propagate, and the function returns an error message as the answer
\* together with the selected documents.
C16_ErrorAnswer ==
    ServiceFailed =>
        /\ ret.ok
        /\ StartsWith(ret.out.answer, s_ErrorGenerating)

\* C16: a failure of the external service during answer_with_ai does not
\* propagate. A failed selection request is reported as a warning, leaves the
\* selection empty and the answer request is still made; a failed answer
\* request returns "Error generating answer: <message>" as the answer,
\* together with the selected documents; an answer request that succeeds
\* returns the reply as the answer.
C16_FailureCaught ==
    (ret.op = "answer" /\ Summary(documents).ok) =>
        /\ ret.ok
        /\ ~ret.a1.ok =>
             /\ ret.out.warned
             /\ ret.out.relevant_docs = <<>>
             /\ "answer" \in {ret.out.calls[i].request :
                                i \in 1..Len(ret.out.calls)}
        /\ ~ret.a2.ok =>
             /\ ret.out.answer = s_ErrorGenerating \o ret.a2.text
             /\ ret.out.relevant_docs = Selection(documents, ret.a1).out
        /\ ret.a2.ok => ret.out.answer = ret.a2.text

\* The answer request failed after documents were selected: the error message
\* has returned with them.
C16_Witness ==
    /\ ret.op = "answer"
    /\ ret.ok
    /\ ret.a1.ok
    /\ ~ret.a2.ok
    /\ ret.out.relevant_docs # <<>>
    /\ StartsWith(ret.out.answer, s_ErrorGenerating)

\* The title of the result contains the query, as the search compares texts:
\* in lower case.
InTitle(r) ==
    /\ r.title.t = "str"
    /\ Contains(Lower(r.title.s), Lower(ret.a1))

\* C17: in the results of a search, a result whose title contains the query
\* has a score at least as high as every result whose title does not contain
\* it, that is, in which the query occurs only in the rest of the document.
C17_TitleAtLeastBody ==
    SearchReturned =>
        \A i, j \in 1..Len(ret.out) :
            (InTitle(ret.out[i]) /\ ~InTitle(ret.out[j])) =>
                Score(ret.out[i]) >= Score(ret.out[j])

\* The lines of build_framework_context that stand for entries.
EntryLines(lines) ==
    SelectSeq(lines, LAMBDA l : StartsWith(l, <<" ", " ", "-", " ">>))

\* C18: for a licence-conditions document the extraction accumulates the
\* entries of all three paths, the top-level conditions, the conditions of
\* the sections and the provisions of the subsections of the sections: the
\* output holds one entry for each of them, in extract_document_ids_from_lccp
\* and in build_framework_context alike.
C18_AllPaths ==
    /\ (ret.op = "extract" /\ ret.a1 = s_lccp /\ ret.ok) =>
         Len(ret.out) = Len(LccpEntries(Extracted))
    /\ (ret.op = "context" /\ ret.ok) =>
         Len(EntryLines(ret.out)) = Len(LccpEntries(ret.a1))

\* C19: for an RTS document, extract_document_ids_from_rts returns exactly
\* one pair when the document has a non-empty "aim" object, whose identifier
\* is "RTS Aim " followed by the decimal digits of the aim's numeric
\* aim_number and whose title is the aim's aim_title, and no pair when "aim"
\* is missing or an empty object.
C19_OneAimPair ==
    (ret.op = "extract" /\ ret.a1 = s_rts /\ Extracted.t = "obj") =>
        LET aim == Get(Extracted, k_aim, JNull)
        IN  /\ (aim.t = "obj" /\ aim.kv # <<>>) =>
                 /\ ret.ok
                 /\ Len(ret.out) = 1
                 /\ Get(aim, k_aim_number, JNull).t = "num" =>
                      ret.out[1].id =
                        JStr(<<"R", "T", "S", " ", "A", "i", "m", " ">>
                             \o NatToStr(Lookup(aim, k_aim_number).n))
                 /\ HasKey(aim, k_aim_title) =>
                      ret.out[1].title = Lookup(aim, k_aim_title)
            /\ (~HasKey(Extracted, k_aim) \/ aim = JObj(<<>>)) =>
                 ret.ok /\ ret.out = <<>>

\* The extraction of the document of aim 12 has returned the one pair
\* ("RTS Aim 12", "Fund display").
C19_Witness ==
    /\ ret.op = "extract"
    /\ ret.a1 = s_rts
    /\ Extracted = RtsAim
    /\ ret.out = <<[id |-> JStr(v_RTS_Aim_12), title |-> JStr(v_FundDisplay)]>>

\* The document of the store a result was derived from.
SourceDocument(r) ==
    StoreAt(documents, r.framework)[DocumentPlace(r)].content

\* The largest number of occurrences of q in s of which no two overlap; the
\* empty q occurs once at every position of s and once at its end.
NonOverlapping(s, q) ==
    LET occ == {i \in 1..(Len(s) - Len(q) + 1) :
                  SubSeq(s, i, i + Len(q) - 1) = q}
        apart == {S \in SUBSET occ :
                    \A i, j \in S : i < j => i + Len(q) <= j}
    IN  IF q = <<>> THEN Len(s) + 1
        ELSE CHOOSE n \in 0..Cardinality(occ) :
               /\ \E S \in apart : Cardinality(S) = n
               /\ \A S \in apart : Cardinality(S) <= n

\* C20: the score of every result of a search equals the number of
\* non-overlapping occurrences of the lower-cased query in the lower-cased
\* JSON text of the whole document the result was derived from; it is at
\* least 1, and the results of one document carry the same score.
C20_ScoreIsCount ==
    SearchReturned =>
        /\ \A f \in 1..Len(FrameworkNames) :
             \A d \in 1..Len(StoreAt(documents, FrameworkNames[f])) :
               LET doc == StoreAt(documents, FrameworkNames[f])[d]
                   n == NonOverlapping(Lower(Dumps(doc.content)),
                                       Lower(ret.a1))
               IN  \A k \in 1..Len(ret.out) :
                     (/\ ret.out[k].framework = FrameworkNames[f]
                      /\ ret.out[k].filename = doc.filename) =>
                         Score(ret.out[k]) = n /\ n >= 1
        /\ \A k \in 1..Len(ret.out) :
             \E f \in 1..Len(FrameworkNames) :
               /\ ret.out[k].framework = FrameworkNames[f]
               /\ \E d \in 1..Len(StoreAt(documents, FrameworkNames[f])) :
                    StoreAt(documents, FrameworkNames[f])[d].filename
                        = ret.out[k].filename
        /\ \A i, j \in 1..Len(ret.out) :
             (/\ ret.out[i].framework = ret.out[j].framework
              /\ ret.out[i].filename = ret.out[j].filename) =>
                 Score(ret.out[i]) = Score(ret.out[j])

\* The search of "zz" has returned the document that holds "zzz", where the
\* query occurs at two overlapping positions, with score 1.
C20_Witness ==
    /\ SearchReturned
    /\ ret.a1 = v_zz
    /\ \E k \in 1..Len(ret.out) :
         /\ SourceDocument(ret.out[k]) = RtsNoAim
         /\ Score(ret.out[k]) = 1

\* The documents in the scope of the search that returned: those of the
\* framework of the filter, or of all three frameworks without a filter.
InScope ==
    IF ~Truthy(ret.a2)
    THEN Len(documents.lccp) + Len(documents.iso27001) + Len(documents.rts)
    ELSE IF \E f \in 1..Len(FrameworkNames) : ret.a2 = JStr(FrameworkNames[f])
    THEN Len(StoreAt(documents, ret.a2.s))
    ELSE 0

\* C21: search_documents with the empty query either signals an error or
\* matches everything: it returns a result for every document in scope, up
\* to the cap of 20, and never fewer without an error.
C21_EmptyQueryAll ==
    (ret.op = "search" /\ ret.a1 = <<>> /\ ret.ok) =>
        Len(ret.out) >= (IF InScope < MaxResults THEN InScope ELSE MaxResults)

\* What the search of the running program returns for a query and a filter.
SearchOf(query, framework) ==
    IF program = "app" THEN search_documents(documents, query, framework)
    ELSE server_search_documents(documents, query, framework)

\* C22: the search does not depend on the letter case of the query: for
\* every store and framework filter, a query returns the same list, with
\* the same results, scores and order, as its lower-cased form, so that two
\* queries of the same lower-cased form return the same list.
C22_CaseInsensitive ==
    (/\ ret.op = "search"
     /\ Lower(ret.a1) # ret.a1
     /\ Lower(ret.a1) \in Queries) =>
        LET other == SearchOf(Lower(ret.a1), ret.a2)
        IN  other.ok = ret.ok /\ other.out = ret.out

\* The search of "Fund" has returned results of different scores, while
\* "fund" is a query as well.
C22_Witness ==
    /\ SearchReturned
    /\ ret.a1 = v_Fund
    /\ v_fund \in Queries
    /\ \E i, j \in 1..Len(ret.out) : Score(ret.out[i]) > Score(ret.out[j])

\* The filter of the search that returned is a string.
FilterGiven ==
    ret.op = "search" /\ ret.a2.t = "str" /\ ret.a2.s # <<>>

\* C23: search_documents with a framework filter string never raises; with
\* the filter lccp, iso27001 or rts every result has that framework, and
\* with any other string, the store key "indexes" included, the result is
\* the empty list.
C23_AnyFilter ==
    FilterGiven =>
        /\ ret.ok
        /\ IF \E f \in 1..Len(FrameworkNames) : ret.a2.s = FrameworkNames[f]
           THEN \A k \in 1..Len(ret.out) : ret.out[k].framework = ret.a2.s
           ELSE ret.out = <<>>

\* The identifier holds no digit.
NoDigit(regulation_id) ==
    \A i \in 1..Len(regulation_id) : regulation_id[i] \notin Digits

\* C24: for framework RTS and an identifier without a digit,
\* get_regulation_url builds no candidate key and returns None for every URL
\* mapping, also for one that holds the raw identifier as a key.
C24_RtsNoDigit ==
    (/\ ret.op = "url"
     /\ Strip(StripSpaces(Upper(ret.a1))) = <<"R", "T", "S">>
     /\ NoDigit(ret.a2)) =>
        /\ LookupAttempts(ret.a1, ret.a2) = <<>>
        /\ ret.ok
        /\ ret.out = JNull

\* The lookup of ("RTS", "Aim") has returned None over a URL mapping that
\* holds the key "Aim" with a url.
C24_Witness ==
    /\ ret.op = "url"
    /\ ret.a1 = s_RTS
    /\ ret.a2 = v_Aim
    /\ KeyHasUrl(v_Aim)
    /\ ret.out = JNull

\* The selection request of the execution that returned has failed.
SelectionFailed ==
    /\ ret.op = "answer"
    /\ Summary(documents).ok
    /\ ~ret.a1.ok

\* C25: a failure of the selection request does not end the question: the
\* answer request is sent after it, its context holds the documents selected
\* before the failure, the sentence that names the frameworks when there
\* are none, and the failure is reported as a warning only: the answer
\* returned is the one of the answer request.
C25_SelectionFailureGoesOn ==
    SelectionFailed =>
        /\ ret.ok
        /\ ret.out.warned
        /\ Len(ret.out.calls) >= 2
        /\ ret.out.calls[Len(ret.out.calls)].request = "answer"
        /\ ret.out.calls[Len(ret.out.calls)].context.docs
             = SubSeq(ret.out.relevant_docs, 1,
                      IF Len(ret.out.relevant_docs) < 5
                      THEN Len(ret.out.relevant_docs) ELSE 5)
        /\ ret.out.calls[Len(ret.out.calls)].context.generic
             = (ret.out.relevant_docs = <<>>)
        /\ ret.a2.ok => ret.out.answer = ret.a2.text
        /\ ~Contains(ret.out.answer, ret.a1.text)
             \/ Contains(ret.a2.text, ret.a1.text)

\* The selection request failed over a store that holds documents, and the
\* reply of the answer request has returned as the answer.
C25_Witness ==
    /\ SelectionFailed
    /\ ret.a2.ok
    /\ ret.ok
    /\ ret.out.warned
    /\ ret.out.answer = ret.a2.text
    /\ ret.out.calls[2].context.generic
    /\ documents.lccp # <<>>

====
